---------------------------- MODULE Spec2Model ----------------------------
(***************************************************************************)
(* Model of the finesse trainer's learning-progress core:                  *)
(*   lib/sm2.ts                 SM-2 cards, reviewCard, selectNextPattern  *)
(*   hooks/use-key-bindings.ts  LearningProgressProvider (recordResult,    *)
(*                              endSession, startNewSession, resetProgress)*)
(*   lib/finesse-data           FINESSE_TARGETS (pattern enumeration)      *)
(*                                                                         *)
(* Numbers.  easiness is a JavaScript double; the model keeps it in        *)
(* hundredths (2.5 is 250).  The only place where the binary value matters *)
(* is Math.round(interval * easiness), see MathRoundProduct.  An accuracy  *)
(* successCount / total is kept as the pair <<numerator, denominator>> and *)
(* compared by cross-multiplication.                                       *)
(*                                                                         *)
(* Date.now() values (lastReviewed, startTime, timestamp) are written by   *)
(* the code and read by no operation; the records below leave them out.    *)
(* Math.random() is a nondeterministic choice: an operator that draws      *)
(* returns the set of values it can return.                                *)
(***************************************************************************)
EXTENDS Integers, Sequences, FiniteSets, TLC

VARIABLES
    cards,                  \* progress.cards, in key insertion order
    sessionHistory,         \* progress.sessionHistory, newest first
    globalRepetitionCount,  \* progress.globalRepetitionCount
    lastMasteredReview,     \* progress.lastMasteredReview
    currentSession,         \* progress.currentSession
    allPatternIds,          \* the allPatternIds argument of selectNextPattern
    selected,               \* the id selectNextPattern returned for the cards as they are
    reviews,                \* history: recordResult calls per pattern since the last reset
    input,                  \* the arguments of a call of a pure function, <<>> without one
    output                  \* <<the value the call returned>>, <<>> before it returns

\* The provider's state, and the call of a pure function.
progress == <<cards, sessionHistory, globalRepetitionCount, lastMasteredReview,
              currentSession, allPatternIds, selected, reviews>>
call == <<input, output>>

vars == <<cards, sessionHistory, globalRepetitionCount, lastMasteredReview,
          currentSession, allPatternIds, selected, reviews, input, output>>

-----------------------------------------------------------------------------
(* Bounds of the model *)

\* Spec: the number of pattern ids of the finesse table that are practised.
MaxPatterns == 2
\* Spec: recordResult is not called once globalRepetitionCount has reached this.
MaxReps == 3
\* Spec: endSession is not called once sessionHistory holds this many records.
MaxSessions == 1
\* SpecDrill: the number of reviews of the one pattern that is drilled.
MaxReviews == 13
\* SpecLoop: the number of select/record rounds.
MaxRounds == 5
\* SpecSelect: the number of cards in the cards argument (ids are drawn from
\* the first MaxCards + 1 ids of the table).
MaxCards == 2
\* SpecPair: recordResult calls on two patterns.
MaxPairReviews == 11
\* SpecSessions: the sessions ended before, and the results recorded after.
MaxPriorSessions == 100
MaxMoreResults == 4
\* compareMoves: the move sequences of the inputs have at most MaxMoveLen moves.
MaxMoveLen == 2
\* isCardMastered: the counters of the input card are at most MaxCount.
MaxCount == 10

-----------------------------------------------------------------------------
(* Program constants *)

DEFAULT_EASINESS == 250
MIN_EASINESS == 130
INITIAL_INTERVAL == 1
\* MASTERY_THRESHOLD = 0.90, in hundredths
MASTERY_THRESHOLD == 90
MIN_ATTEMPTS_FOR_MASTERY == 5
MASTERED_REVIEW_MIN == 10
MASTERED_REVIEW_MAX == 20
MAX_SESSION_HISTORY == 100

\* JavaScript null where a pattern id (a sequence of characters) is expected.
Null == <<"null">>
\* No selectNextPattern result is outstanding.
Pending == <<"pending">>

Max(a, b) == IF a >= b THEN a ELSE b

-----------------------------------------------------------------------------
(* Pattern ids *)

PIECE_INDEX_TO_TYPE ==
    [i \in 0..6 |-> <<"Z", "S", "I", "T", "O", "L", "J">>[i + 1]]

\* FINESSE_TARGETS[pieceIndex][layer][position] = <<column, rotation>>
FINESSE_TARGETS ==
    [i \in 0..6 |->
       CASE i = 0 ->
              << <<<<0,0>>, <<1,0>>, <<2,0>>, <<3,0>>, <<4,0>>, <<5,0>>, <<6,0>>, <<7,0>>>>,
                 <<<<0,3>>, <<1,3>>, <<2,3>>, <<3,3>>, <<4,3>>, <<5,3>>, <<6,3>>, <<7,3>>, <<8,3>>>> >>
         [] i = 1 ->
              << <<<<0,0>>, <<1,0>>, <<2,0>>, <<3,0>>, <<4,0>>, <<5,0>>, <<6,0>>, <<7,0>>>>,
                 <<<<0,3>>, <<1,3>>, <<2,3>>, <<3,3>>, <<4,3>>, <<5,3>>, <<6,3>>, <<7,3>>, <<8,3>>>> >>
         [] i = 2 ->
              << <<<<0,0>>, <<1,0>>, <<2,0>>, <<3,0>>, <<4,0>>, <<5,0>>, <<6,0>>>>,
                 <<<<0,3>>, <<1,3>>, <<2,3>>, <<3,3>>, <<4,3>>, <<5,3>>, <<6,3>>, <<7,3>>, <<8,3>>, <<9,3>>>> >>
         [] i = 3 ->
              << <<<<0,0>>, <<1,0>>, <<2,0>>, <<3,0>>, <<4,0>>, <<5,0>>, <<6,0>>, <<7,0>>>>,
                 <<<<0,1>>, <<1,1>>, <<2,1>>, <<3,1>>, <<4,1>>, <<5,1>>, <<6,1>>, <<7,1>>, <<8,1>>>>,
                 <<<<0,2>>, <<1,2>>, <<2,2>>, <<3,2>>, <<4,2>>, <<5,2>>, <<6,2>>, <<7,2>>>>,
                 <<<<0,3>>, <<1,3>>, <<2,3>>, <<3,3>>, <<4,3>>, <<5,3>>, <<6,3>>, <<7,3>>, <<8,3>>>> >>
         [] i = 4 ->
              << <<<<0,0>>, <<1,0>>, <<2,0>>, <<3,0>>, <<4,0>>, <<5,0>>, <<6,0>>, <<7,0>>, <<8,0>>>> >>
         [] i = 5 ->
              << <<<<0,0>>, <<1,0>>, <<2,0>>, <<3,0>>, <<4,0>>, <<5,0>>, <<6,0>>, <<7,0>>>>,
                 <<<<0,1>>, <<1,1>>, <<2,1>>, <<3,1>>, <<4,1>>, <<5,1>>, <<6,1>>, <<7,1>>, <<8,1>>>>,
                 <<<<0,2>>, <<1,2>>, <<2,2>>, <<3,2>>, <<4,2>>, <<5,2>>, <<6,2>>, <<7,2>>>>,
                 <<<<0,3>>, <<1,3>>, <<2,3>>, <<3,3>>, <<4,3>>, <<5,3>>, <<6,3>>, <<7,3>>, <<8,3>>>> >>
         [] i = 6 ->
              << <<<<0,0>>, <<1,0>>, <<2,0>>, <<3,0>>, <<4,0>>, <<5,0>>, <<6,0>>, <<7,0>>>>,
                 <<<<0,1>>, <<1,1>>, <<2,1>>, <<3,1>>, <<4,1>>, <<5,1>>, <<6,1>>, <<7,1>>, <<8,1>>>>,
                 <<<<0,2>>, <<1,2>>, <<2,2>>, <<3,2>>, <<4,2>>, <<5,2>>, <<6,2>>, <<7,2>>>>,
                 <<<<0,3>>, <<1,3>>, <<2,3>>, <<3,3>>, <<4,3>>, <<5,3>>, <<6,3>>, <<7,3>>, <<8,3>>>> >>]

\* Mutant of NumberToString: only the last digit is written.
NumberToStringLastDigit(n) ==
    <<<<"0","1","2","3","4","5","6","7","8","9">>[(n % 10) + 1]>>

\* String(n) of a template literal, as the sequence of its characters.
RECURSIVE NumberToString(_)
NumberToString(n) ==
    IF n < 0 THEN <<"-">> \o NumberToString(0 - n)
    ELSE IF n < 10 THEN <<<<"0","1","2","3","4","5","6","7","8","9">>[n + 1]>>
    ELSE NumberToString(n \div 10) \o NumberToString(n % 10)

\* `${piece}_${column}_${rotation}`: a pattern id is the sequence of its characters.
createPatternId(piece, column, rotation) ==
    <<piece, "_">> \o NumberToString(column) \o <<"_">> \o NumberToString(rotation)

\* The ids of one orientation layer, in position order.
RECURSIVE LayerIds(_, _, _)
LayerIds(pieceType, positions, colIndex) ==
    IF colIndex > Len(positions) THEN <<>>
    ELSE <<createPatternId(pieceType, positions[colIndex][1], positions[colIndex][2])>>
         \o LayerIds(pieceType, positions, colIndex + 1)

\* The ids of one piece, layer after layer.
RECURSIVE PieceIds(_, _, _)
PieceIds(pieceType, rotations, rotIndex) ==
    IF rotIndex > Len(rotations) THEN <<>>
    ELSE LayerIds(pieceType, rotations[rotIndex], 1)
         \o PieceIds(pieceType, rotations, rotIndex + 1)

RECURSIVE IdsFromPiece(_)
IdsFromPiece(pieceIndex) ==
    IF pieceIndex > 6 THEN <<>>
    ELSE PieceIds(PIECE_INDEX_TO_TYPE[pieceIndex], FINESSE_TARGETS[pieceIndex], 1)
         \o IdsFromPiece(pieceIndex + 1)

getAllPatternIds == IdsFromPiece(0)

\* The cached id list, cut to the first MaxPatterns ids of the table.
ALL_PATTERN_IDS == SubSeq(getAllPatternIds, 1, MaxPatterns)


\* id.split('_'): the segments between the separators.
RECURSIVE SplitOn(_, _, _)
SplitOn(chars, sep, current) ==
    IF chars = <<>> THEN <<current>>
    ELSE IF Head(chars) = sep THEN <<current>> \o SplitOn(Tail(chars), sep, <<>>)
    ELSE SplitOn(Tail(chars), sep, Append(current, Head(chars)))

DigitValue(ch) ==
    CASE ch = "0" -> 0 [] ch = "1" -> 1 [] ch = "2" -> 2 [] ch = "3" -> 3 [] ch = "4" -> 4
      [] ch = "5" -> 5 [] ch = "6" -> 6 [] ch = "7" -> 7 [] ch = "8" -> 8 [] ch = "9" -> 9
      [] OTHER -> -1

\* The value of the longest prefix of decimal digits, continuing from acc.
RECURSIVE ParseDigits(_, _)
ParseDigits(chars, acc) ==
    IF chars = <<>> \/ DigitValue(Head(chars)) < 0 THEN acc
    ELSE ParseDigits(Tail(chars), 10 * acc + DigitValue(Head(chars)))

\* parseInt(s, 10): an optional sign, then the leading digits; "NaN" without a digit.
ParseInt(chars) ==
    LET signed == chars # <<>> /\ Head(chars) \in {"-", "+"}
        body == IF signed THEN Tail(chars) ELSE chars
    IN IF body = <<>> \/ DigitValue(Head(body)) < 0 THEN "NaN"
       ELSE IF signed /\ Head(chars) = "-" THEN 0 - ParseDigits(body, 0)
       ELSE ParseDigits(body, 0)

\* A split segment read back as a string: one character is the piece letter.
JoinChars(chars) == IF Len(chars) = 1 THEN chars[1] ELSE chars

parsePatternId(id) ==
    LET parts == SplitOn(id, "_", <<>>)
        part(k) == IF k <= Len(parts) THEN parts[k] ELSE <<>>
    IN [piece |-> JoinChars(part(1)),
        column |-> ParseInt(part(2)),
        rotation |-> ParseInt(part(3))]

-----------------------------------------------------------------------------
(* SM-2 cards (lib/sm2.ts) *)

initCard(patternId, g) ==
    [patternId |-> patternId,
     easiness |-> DEFAULT_EASINESS,
     interval |-> INITIAL_INTERVAL,
     repetitions |-> 0,
     successCount |-> 0,
     failCount |-> 0,
     nextReviewAt |-> g + INITIAL_INTERVAL]

\* Mutant of getQuality: a correct answer counts as perfect (5).
getQualityPerfect(correct) == IF correct THEN 5 ELSE 0

getQuality(correct) == IF correct THEN 4 ELSE 0

\* Mutant of calculateNewEasiness: the SM-2 formula for failures too.
calculateNewEasinessCanonical(currentEasiness, quality) ==
    Max(MIN_EASINESS,
        currentEasiness + (10 - (5 - quality) * (8 + (5 - quality) * 2)))

\* Mutant of calculateNewEasiness: the floor MIN_EASINESS is lost on failures.
calculateNewEasinessUnfloored(currentEasiness, quality) ==
    IF quality < 3
    THEN currentEasiness - 10
    ELSE Max(MIN_EASINESS,
             currentEasiness + (10 - (5 - quality) * (8 + (5 - quality) * 2)))

\* In hundredths: 0.1 is 10, 0.08 is 8, 0.02 is 2.  With quality 4 the double
\* expression 0.1 - 1 * (0.08 + 1 * 0.02) is exactly 0.
calculateNewEasiness(currentEasiness, quality) ==
    IF quality < 3
    THEN Max(MIN_EASINESS, currentEasiness - 10)
    ELSE Max(MIN_EASINESS,
             currentEasiness + (10 - (5 - quality) * (8 + (5 - quality) * 2)))

\* The largest power of two that is at most n (n >= 1).
RECURSIVE Pow2Floor(_)
Pow2Floor(n) == IF n < 2 THEN 1 ELSE 2 * Pow2Floor(n \div 2)

\* The double that easiness holds after repeated "- 0.1" from 2.5 lies below
\* the decimal e/100 by EasinessDrift(e)/25 units of 2^-52 (1.3 itself, the
\* literal MIN_EASINESS, lies 5/25 above).
EasinessDrift(easiness) == IF easiness = MIN_EASINESS THEN -5 ELSE DEFAULT_EASINESS - easiness

\* Math.round(interval * easiness) on doubles.  Away from a tie the decimal
\* product decides.  On a decimal tie x.5 the double product is x.5 only if the
\* drift of easiness is lost in the product's rounding (at most half an ulp of
\* x.5); otherwise the product is below x.5 and Math.round gives x.
MathRoundProduct(interval, easiness) ==
    LET product == interval * easiness
    IN IF product % 100 = 50
          /\ 2 * interval * EasinessDrift(easiness) > 25 * Pow2Floor(product \div 100)
       THEN (product - 50) \div 100
       ELSE (product + 50) \div 100

\* Mutant of calculateNextInterval: the repetitions are read after their increment.
calculateNextIntervalAfterIncrement(card, quality) ==
    IF quality < 3 THEN INITIAL_INTERVAL
    ELSE IF card.repetitions + 1 = 0 THEN 1
    ELSE IF card.repetitions + 1 = 1 THEN 6
    ELSE MathRoundProduct(card.interval, card.easiness)

calculateNextInterval(card, quality) ==
    IF quality < 3 THEN INITIAL_INTERVAL
    ELSE IF card.repetitions = 0 THEN 1
    ELSE IF card.repetitions = 1 THEN 6
    ELSE MathRoundProduct(card.interval, card.easiness)

\* A failed review: Math.max(0, Math.floor(card.repetitions / 2))
FailedRepetitions(card) == Max(0, card.repetitions \div 2)

\* Mutant of FailedInterval: the interval is reset.
FailedIntervalReset(card) == INITIAL_INTERVAL

\* A failed review: Math.max(2, Math.floor(card.interval / 2))
FailedInterval(card) == Max(2, card.interval \div 2)

\* Mutant of CountedSuccess: the success counter never counts.
CountedSuccessNever(card, correct) == card.successCount

\* correct ? card.successCount + 1 : card.successCount
CountedSuccess(card, correct) ==
    IF correct THEN card.successCount + 1 ELSE card.successCount

\* Mutant of CountedFail: the failure counter never counts.
CountedFailNever(card, correct) == card.failCount

\* Mutant of CountedFail: the failure counter counts every review.
CountedFailAlways(card, correct) == card.failCount + 1

\* correct ? card.failCount : card.failCount + 1
CountedFail(card, correct) ==
    IF correct THEN card.failCount ELSE card.failCount + 1

\* Mutant of reviewCard: the next review is counted from the count after the
\* review.
reviewCardFromNextCount(card, correct, g) ==
    LET quality == getQuality(correct)
        newInterval == IF quality < 3
                       THEN FailedInterval(card)
                       ELSE calculateNextInterval(card, quality)
    IN [card EXCEPT !.easiness = calculateNewEasiness(card.easiness, quality),
                    !.interval = newInterval,
                    !.repetitions = IF quality < 3 THEN FailedRepetitions(card)
                                    ELSE card.repetitions + 1,
                    !.successCount = CountedSuccess(card, correct),
                    !.failCount = CountedFail(card, correct),
                    !.nextReviewAt = g + 1 + newInterval]

reviewCard(card, correct, g) ==
    LET quality == getQuality(correct)
        newEasiness == calculateNewEasiness(card.easiness, quality)
        newRepetitions == IF quality < 3
                          THEN FailedRepetitions(card)
                          ELSE card.repetitions + 1
        newInterval == IF quality < 3
                       THEN FailedInterval(card)
                       ELSE calculateNextInterval(card, quality)
    IN [card EXCEPT !.easiness = newEasiness,
                    !.interval = newInterval,
                    !.repetitions = newRepetitions,
                    !.successCount = CountedSuccess(card, correct),
                    !.failCount = CountedFail(card, correct),
                    !.nextReviewAt = g + newInterval]

\* successCount / total as <<numerator, denominator>>; 0 without attempts.
getCardAccuracy(card) ==
    LET total == card.successCount + card.failCount
    IN IF total = 0 THEN <<0, 1>> ELSE <<card.successCount, total>>

\* Mutant of isCardMastered: exactly MIN_ATTEMPTS_FOR_MASTERY attempts are too few.
isCardMasteredAfterFloor(card) ==
    LET total == card.successCount + card.failCount
        accuracy == getCardAccuracy(card)
    IN IF total <= MIN_ATTEMPTS_FOR_MASTERY THEN FALSE
       ELSE 100 * accuracy[1] >= MASTERY_THRESHOLD * accuracy[2]

\* accuracy >= 0.90: the quotient of two small integers is at least the double
\* 0.9 exactly when 100 * numerator >= 90 * denominator.
isCardMastered(card) ==
    LET total == card.successCount + card.failCount
        accuracy == getCardAccuracy(card)
    IN IF total < MIN_ATTEMPTS_FOR_MASTERY THEN FALSE
       ELSE 100 * accuracy[1] >= MASTERY_THRESHOLD * accuracy[2]

getDueCards(cs, g) == SelectSeq(cs, LAMBDA card : card.nextReviewAt <= g)

getUnmasteredCards(cs) == SelectSeq(cs, LAMBDA card : ~isCardMastered(card))

getMasteredCards(cs) == SelectSeq(cs, LAMBDA card : isCardMastered(card))

\* Mutant of CompareCards: the secondary key (accuracy) is lost.
CompareCardsAttemptsOnly(a, b) ==
    (a.successCount + a.failCount) - (b.successCount + b.failCount)

\* The comparator of both sorts: its sign.  Fewer attempts first, then the
\* lower accuracy (a difference of two quotients, by cross-multiplication).
CompareCards(a, b) ==
    LET attemptsA == a.successCount + a.failCount
        attemptsB == b.successCount + b.failCount
        accA == getCardAccuracy(a)
        accB == getCardAccuracy(b)
    IN IF attemptsA # attemptsB THEN attemptsA - attemptsB
       ELSE accA[1] * accB[2] - accB[1] * accA[2]

\* Array.prototype.sort((a, b) => CompareCards(a, b)): a stable sort.
RECURSIVE InsertSorted(_, _)
InsertSorted(card, sorted) ==
    IF sorted = <<>> THEN <<card>>
    ELSE IF CompareCards(card, Head(sorted)) < 0 THEN <<card>> \o sorted
    ELSE <<Head(sorted)>> \o InsertSorted(card, Tail(sorted))

\* The cards before the last are sorted once, and the last is put in.
RECURSIVE SortCards(_)
SortCards(list) ==
    IF list = <<>> THEN <<>>
    ELSE CHOOSE sorted \in
             {InsertSorted(list[Len(list)], rest) :
                 rest \in {SortCards(SubSeq(list, 1, Len(list) - 1))}} : TRUE

Range(seq) == {seq[i] : i \in 1..Len(seq)}

\* Object.keys(cards)
CardIds(cs) == {cs[i].patternId : i \in 1..Len(cs)}

\* Mutant of Unreviewed: the filter on reviewed ids is lost.
UnreviewedUnfiltered(cs, ids) == ids

\* allPatternIds.filter(id => !reviewedPatternIds.has(id))
Unreviewed(cs, ids) ==
    LET reviewedPatternIds == CardIds(cs)
    IN SelectSeq(ids, LAMBDA id : id \notin reviewedPatternIds)

\* The values of reviewInterval = MASTERED_REVIEW_MIN +
\* Math.floor(Math.random() * (MASTERED_REVIEW_MAX - MASTERED_REVIEW_MIN)).
ReviewIntervals == MASTERED_REVIEW_MIN .. (MASTERED_REVIEW_MAX - 1)

\* Mutant of ReviewDraws: the cooldown test always passes.
ReviewDrawsAlways(g, lastMastered) == ReviewIntervals

\* The draws of reviewInterval with globalRepetitionCount - lastMasteredReview >= reviewInterval.
ReviewDraws(g, lastMastered) == {r \in ReviewIntervals : g - lastMastered >= r}

\* Mutant of Fallback: the random pick is lost, null is returned.
FallbackNone(ids) == {Null}

\* The fallback: a random id of allPatternIds, null when there is none.
Fallback(ids) == IF Len(ids) > 0 THEN Range(ids) ELSE {Null}

\* The values selectNextPattern can return (Math.random() left open).
selectNextPattern(cs, ids, g, lastMastered) ==
    LET unreviewed == Unreviewed(cs, ids)
        dueCards == getDueCards(cs, g)
        unmastered == getUnmasteredCards(cs)
        mastered == getMasteredCards(cs)
        reviewIntervals == ReviewIntervals
        reviewDraws == ReviewDraws(g, lastMastered)
        fallback == Fallback(ids)
    IN IF Len(unreviewed) > 0 THEN Range(unreviewed)
       ELSE IF Len(dueCards) > 0 THEN {SortCards(dueCards)[1].patternId}
       ELSE IF Len(unmastered) > 0 THEN {SortCards(unmastered)[1].patternId}
       ELSE (IF Len(mastered) > 0 /\ reviewDraws # {}
             THEN {mastered[i].patternId : i \in 1..Len(mastered)}
             ELSE {})
            \cup
            (IF Len(mastered) = 0 \/ reviewDraws # reviewIntervals
             THEN fallback
             ELSE {})

createSessionRecord(totalAttempts, correctAttempts, patternsReviewed, newPatternsMastered) ==
    [totalAttempts |-> totalAttempts,
     correctAttempts |-> correctAttempts,
     accuracy |-> IF totalAttempts > 0 THEN <<correctAttempts, totalAttempts>> ELSE <<0, 1>>,
     patternsReviewed |-> patternsReviewed,
     newPatternsMastered |-> newPatternsMastered]

-----------------------------------------------------------------------------
(* LearningProgressProvider (hooks/use-key-bindings.ts) *)

FreshSession ==
    [attempts |-> 0, correct |-> 0, patternsReviewed |-> {},
     patternsMasteredThisSession |-> 0]

\* prev.cards[patternId]: the position of the card, 0 when the key is absent.
CardIndex(cs, patternId) ==
    IF patternId \in CardIds(cs)
    THEN CHOOSE i \in 1..Len(cs) : cs[i].patternId = patternId
    ELSE 0

\* Mutant of PutCard: the spread of prev.cards is lost.
PutCardAlone(cs, updatedCard) == <<updatedCard>>

\* { ...prev.cards, [patternId]: updatedCard }: an existing key keeps its place,
\* a new key goes last.
PutCard(cs, updatedCard) ==
    LET i == CardIndex(cs, updatedCard.patternId)
    IN IF i = 0 THEN Append(cs, updatedCard) ELSE [cs EXCEPT ![i] = updatedCard]

\* Mutant of Take: the cap is lost.
TakeUncapped(seq, n) == seq

\* seq.slice(0, n)
Take(seq, n) == SubSeq(seq, 1, IF Len(seq) < n THEN Len(seq) ELSE n)

\* The (piece, column, rotation) of the practised patterns.
PracticeTargets == {parsePatternId(id) : id \in Range(ALL_PATTERN_IDS)}

\* useState(loadProgress) with nothing stored: DEFAULT_PROGRESS.
Init ==
    /\ cards = <<>>
    /\ sessionHistory = <<>>
    /\ globalRepetitionCount = 0
    /\ lastMasteredReview = 0
    /\ currentSession = FreshSession
    /\ allPatternIds = ALL_PATTERN_IDS
    /\ selected = Pending
    /\ reviews = <<>>
    /\ input = <<>>
    /\ output = <<>>

\* selectNextLearningPattern: the pattern id selectNextPattern returns.
SelectNext ==
    /\ \E id \in selectNextPattern(cards, allPatternIds, globalRepetitionCount,
                                   lastMasteredReview) :
          selected' = id
    /\ UNCHANGED <<cards, sessionHistory, globalRepetitionCount, lastMasteredReview,
                   currentSession, allPatternIds, reviews, call>>

\* Mutant of NewGlobalRepetitionCount: the increment is lost.
NewGlobalRepetitionCountSame(prevCount) == prevCount

\* globalRepetitionCount: prev.globalRepetitionCount + 1
NewGlobalRepetitionCount(prevCount) == prevCount + 1

\* Mutant of NewLastMasteredReview: the count after its increment is stored.
NewLastMasteredReviewAfter(wasMastered, prevCount, prevLast) ==
    IF wasMastered THEN prevCount + 1 ELSE prevLast

\* newLastMasteredReview: prev.globalRepetitionCount if wasMastered
NewLastMasteredReview(wasMastered, prevCount, prevLast) ==
    IF wasMastered THEN prevCount ELSE prevLast

\* Mutant of NewlyMastered: every review that leaves the card mastered counts.
NewlyMasteredAlways(wasMastered, isNowMastered) ==
    IF isNowMastered THEN 1 ELSE 0

\* (!wasMastered && isNowMastered ? 1 : 0)
NewlyMastered(wasMastered, isNowMastered) ==
    IF ~wasMastered /\ isNowMastered THEN 1 ELSE 0

\* The update of the progress that recordResult(piece, column, rotation,
\* correct) makes.
RecordProgress(piece, column, rotation, correct) ==
    LET patternId == createPatternId(piece, column, rotation)
        i == CardIndex(cards, patternId)
        wasMastered == IF i # 0 THEN isCardMastered(cards[i]) ELSE FALSE
        card == IF i # 0 THEN cards[i] ELSE initCard(patternId, globalRepetitionCount)
        updatedCard == reviewCard(card, correct, globalRepetitionCount)
        isNowMastered == isCardMastered(updatedCard)
        newLastMasteredReview ==
            NewLastMasteredReview(wasMastered, globalRepetitionCount, lastMasteredReview)
        newPatternsReviewed == currentSession.patternsReviewed \cup {patternId}
    IN /\ cards' = PutCard(cards, updatedCard)
       /\ globalRepetitionCount' = NewGlobalRepetitionCount(globalRepetitionCount)
       /\ lastMasteredReview' = newLastMasteredReview
       /\ currentSession' =
             [currentSession EXCEPT
                !.attempts = @ + 1,
                !.correct = @ + (IF correct THEN 1 ELSE 0),
                !.patternsReviewed = newPatternsReviewed,
                !.patternsMasteredThisSession =
                    @ + NewlyMastered(wasMastered, isNowMastered)]
       /\ reviews' = [id \in DOMAIN reviews \cup {patternId} |->
                         (IF id \in DOMAIN reviews THEN reviews[id] ELSE 0)
                         + (IF id = patternId THEN 1 ELSE 0)]
       /\ UNCHANGED <<sessionHistory, allPatternIds>>

\* recordResult(piece, column, rotation, correct); the id that was selected for
\* the cards as they were is no longer the selection for the cards as they are.
RecordResult(piece, column, rotation, correct) ==
    /\ RecordProgress(piece, column, rotation, correct)
    /\ selected' = Pending
    /\ UNCHANGED call

StartNewSession ==
    /\ currentSession' = FreshSession
    /\ UNCHANGED <<cards, sessionHistory, globalRepetitionCount, lastMasteredReview,
                   allPatternIds, selected, reviews, call>>

\* Mutant of IsEmptySession: empty sessions are recorded too.
IsEmptySessionNever(session) == FALSE

\* prev.currentSession.attempts === 0
IsEmptySession(session) == session.attempts = 0

EndSession ==
    /\ IF IsEmptySession(currentSession)
       THEN UNCHANGED <<sessionHistory, currentSession>>
       ELSE LET sessionRecord ==
                    createSessionRecord(currentSession.attempts,
                                        currentSession.correct,
                                        Cardinality(currentSession.patternsReviewed),
                                        currentSession.patternsMasteredThisSession)
            IN /\ sessionHistory' =
                      Take(<<sessionRecord>> \o sessionHistory, MAX_SESSION_HISTORY)
               /\ currentSession' = FreshSession
    /\ UNCHANGED <<cards, globalRepetitionCount, lastMasteredReview, allPatternIds,
                   selected, reviews, call>>

\* resetProgress: DEFAULT_PROGRESS with a fresh currentSession.
ResetProgress ==
    /\ cards' = <<>>
    /\ sessionHistory' = <<>>
    /\ globalRepetitionCount' = 0
    /\ lastMasteredReview' = 0
    /\ currentSession' = FreshSession
    /\ selected' = Pending
    /\ reviews' = <<>>
    /\ UNCHANGED <<allPatternIds, call>>

\* endSession while the history is within the model's bound.
EndSessionBounded ==
    /\ Len(sessionHistory) < MaxSessions
    /\ EndSession

RecordAny ==
    /\ globalRepetitionCount < MaxReps
    /\ \E target \in PracticeTargets, correct \in BOOLEAN :
          RecordResult(target.piece, target.column, target.rotation, correct)

Next ==
    \/ SelectNext
    \/ RecordAny
    \/ StartNewSession
    \/ EndSessionBounded
    \/ ResetProgress

Spec == Init /\ [][Next]_vars

-----------------------------------------------------------------------------
(* SpecDrill: one pattern reviewed again and again, from the empty store *)

DrillTarget == parsePatternId(getAllPatternIds[1])

DrillRecord ==
    /\ globalRepetitionCount < MaxReviews
    /\ \E correct \in BOOLEAN :
          RecordResult(DrillTarget.piece, DrillTarget.column, DrillTarget.rotation, correct)

SpecDrill == Init /\ [][DrillRecord]_vars

-----------------------------------------------------------------------------
(* SpecLoop: select a pattern, record a result for it, select again *)

LoopInit ==
    /\ cards = <<>>
    /\ sessionHistory = <<>>
    /\ globalRepetitionCount = 0
    /\ lastMasteredReview = 0
    /\ currentSession = FreshSession
    /\ allPatternIds \in {SubSeq(getAllPatternIds, 1, n) : n \in 1..(MaxPatterns + 1)}
    /\ selected = Pending
    /\ reviews = <<>>
    /\ input = <<>>
    /\ output = <<>>

LoopSelect ==
    /\ selected = Pending
    /\ SelectNext

LoopRecord ==
    /\ selected \notin {Pending, Null}
    /\ globalRepetitionCount < MaxRounds
    /\ \E correct \in BOOLEAN :
          LET target == parsePatternId(selected)
          IN RecordResult(target.piece, target.column, target.rotation, correct)

LoopNext == LoopSelect \/ LoopRecord

SpecLoop == LoopInit /\ [][LoopNext]_vars

-----------------------------------------------------------------------------
(* SpecSelect: selectNextPattern as a function of its four arguments *)

\* The ids the arguments are drawn from.
SelectPool == SubSeq(getAllPatternIds, 1, MaxCards + 1)

\* The subsequences of seq.
RECURSIVE SubSequences(_)
SubSequences(seq) ==
    IF seq = <<>> THEN {<<>>}
    ELSE LET rest == SubSequences(Tail(seq))
         IN rest \cup {<<Head(seq)>> \o r : r \in rest}

\* globalRepetitionCount of the call, and the lastMasteredReview values tried.
SelectNow == 30
SelectGaps == {9, 10, 19}

\* A card with the given counters and due time.  selectNextPattern reads only
\* patternId, successCount, failCount and nextReviewAt of a card.
InputCard(patternId, counts, nextReviewAt) ==
    [initCard(patternId, 0) EXCEPT !.successCount = counts[1],
                                   !.failCount = counts[2],
                                   !.nextReviewAt = nextReviewAt]

\* <<successCount, failCount>>: weak, new, mastered at 100%, mastered at exactly 90%.
InputCounts == {<<0, 1>>, <<1, 0>>, <<5, 0>>, <<9, 1>>}

InputCardsOf(patternId) ==
    {InputCard(patternId, counts, next) :
        counts \in InputCounts, next \in {SelectNow, SelectNow + 1}}

\* The card maps: at most MaxCards cards, no id twice, any insertion order.
RECURSIVE CardMaps(_)
CardMaps(n) ==
    IF n = 0 THEN {<<>>}
    ELSE LET shorter == CardMaps(n - 1)
         IN shorter \cup
            UNION {{Append(cs, card) : card \in InputCardsOf(id)} :
                      cs \in shorter, id \in Range(SelectPool) }

DistinctIds(cs) == Cardinality(CardIds(cs)) = Len(cs)

SelectInit ==
    /\ cards \in {cs \in CardMaps(MaxCards) : DistinctIds(cs)}
    /\ allPatternIds \in SubSequences(SelectPool)
    /\ globalRepetitionCount = SelectNow
    /\ lastMasteredReview \in {SelectNow - gap : gap \in SelectGaps}
    /\ sessionHistory = <<>>
    /\ currentSession = FreshSession
    /\ selected = Pending
    /\ reviews = <<>>
    /\ input = <<>>
    /\ output = <<>>

SelectApply ==
    /\ selected = Pending
    /\ SelectNext

SpecSelect == SelectInit /\ [][SelectApply]_vars

-----------------------------------------------------------------------------
(* Claims about selectNextPattern *)

CardSet == Range(cards)
CardKeys == {c.patternId : c \in CardSet}
Attempts(c) == c.successCount + c.failCount
IsDue(c) == c.nextReviewAt <= globalRepetitionCount
DueSet == {c \in CardSet : IsDue(c)}
UnmasteredSet == {c \in CardSet : ~isCardMastered(c)}
MasteredSet == {c \in CardSet : isCardMastered(c)}
CooldownGap == globalRepetitionCount - lastMasteredReview
EveryIdHasCard == \A i \in 1..Len(allPatternIds) : allPatternIds[i] \in CardKeys
\* selectNextPattern has returned, and what it returned is the id of a mastered card.
ReturnedMastered == selected # Pending /\ selected \in {c.patternId : c \in MasteredSet}

\* C1 as stated: a mastered card's id is returned only when
\* globalRepetitionCount - lastMasteredReview >= 10.
C1_Original == ReturnedMastered => CooldownGap >= MASTERED_REVIEW_MIN

\* C1 amended: the id of a mastered card is returned only when every id of
\* allPatternIds has a card and either that card is due (tier 2), or no card is
\* due and none is unmastered and then either the cooldown holds
\* (globalRepetitionCount - lastMasteredReview >= 10, tier 4) or the id comes
\* from allPatternIds (the fallback, which the cooldown does not gate).
C1_Amended ==
    ReturnedMastered =>
        /\ EveryIdHasCard
        /\ \/ \E c \in DueSet : c.patternId = selected
           \/ /\ DueSet = {}
              /\ UnmasteredSet = {}
              /\ \/ CooldownGap >= MASTERED_REVIEW_MIN
                 \/ selected \in Range(allPatternIds)

\* A mastered card that is not due and is no id of allPatternIds was returned:
\* the spaced review of tier 4.
C1_Witness ==
    /\ ReturnedMastered
    /\ DueSet = {}
    /\ selected \notin Range(allPatternIds)
    /\ CooldownGap >= MASTERED_REVIEW_MIN

\* C2: while some id of allPatternIds has no card, the id returned has no card;
\* so in the select/record loop from the empty store the first k <= |allPatternIds|
\* rounds create the cards of k distinct patterns (with {A, B}: the second
\* selection returns the other pattern).
C2_NewPatternsFirst ==
    /\ (selected # Pending /\ ~EveryIdHasCard) =>
           selected \in Range(allPatternIds) \ CardKeys
    /\ globalRepetitionCount <= Len(allPatternIds) =>
           /\ Len(cards) = globalRepetitionCount
           /\ Cardinality(CardKeys) = globalRepetitionCount
           /\ \A c \in CardSet : Attempts(c) = 1

\* Two patterns, one round done, and the second selection returned the other one.
C2_Witness ==
    /\ Len(allPatternIds) = 2
    /\ globalRepetitionCount = 1
    /\ Len(cards) = 1
    /\ selected \in Range(allPatternIds)
    /\ selected # cards[1].patternId

\* The key of both sorts: a is strictly before b for (attempts, accuracy).
KeyBefore(a, b) ==
    \/ Attempts(a) < Attempts(b)
    \/ /\ Attempts(a) = Attempts(b)
       /\ a.successCount * Attempts(b) < b.successCount * Attempts(a)

MinimalIn(c, set) == \A d \in set : ~KeyBefore(d, c)

\* C3: when every id of allPatternIds has a card, the id returned is that of a
\* due card that is minimal among the due cards for (attempts, accuracy) if
\* some card is due, and otherwise that of an unmastered card minimal among the
\* unmastered cards if some card is unmastered.
C3_DueThenUnmastered ==
    (selected # Pending /\ EveryIdHasCard) =>
        IF DueSet # {}
        THEN \E c \in DueSet : c.patternId = selected /\ MinimalIn(c, DueSet)
        ELSE UnmasteredSet # {} =>
                \E c \in UnmasteredSet : c.patternId = selected /\ MinimalIn(c, UnmasteredSet)

\* Two due cards with as many attempts, the later inserted one less accurate,
\* and it is the one returned.
C3_Witness ==
    /\ selected # Pending
    /\ EveryIdHasCard
    /\ Len(cards) = 2
    /\ IsDue(cards[1]) /\ IsDue(cards[2])
    /\ Attempts(cards[1]) = Attempts(cards[2])
    /\ KeyBefore(cards[2], cards[1])
    /\ selected = cards[2].patternId

\* C4: with a non-empty allPatternIds the result is never null; a null result
\* implies that allPatternIds is empty.
C4_NonNull ==
    selected # Pending =>
        /\ Len(allPatternIds) > 0 => selected # Null
        /\ selected = Null => Len(allPatternIds) = 0

\* Every card mastered, none due, the cooldown not over: the fallback returned
\* an id of the non-empty allPatternIds.
C4_Witness ==
    /\ selected \notin {Pending, Null}
    /\ Len(allPatternIds) > 0
    /\ cards # <<>>
    /\ DueSet = {}
    /\ UnmasteredSet = {}
    /\ CooldownGap < MASTERED_REVIEW_MIN

\* C5 as stated: with an empty allPatternIds the result is null, whatever the
\* cards map contains.
C5_NullOnEmptyUniverse ==
    (selected # Pending /\ Len(allPatternIds) = 0) => selected = Null

-----------------------------------------------------------------------------
(* Claims about reviewCard, on the one card of SpecDrill *)

\* The card the next review is applied to: the stored one, or a new card.
ReviewedCard ==
    IF cards = <<>>
    THEN [easiness |-> 250, interval |-> 1, repetitions |-> 0,
          successCount |-> 0, failCount |-> 0]
    ELSE cards[1]

\* The step is a review of the card with correct = FALSE / TRUE.
FailedReview ==
    /\ Len(cards') = 1
    /\ cards'[1].failCount = ReviewedCard.failCount + 1
    /\ cards'[1].successCount = ReviewedCard.successCount
PassedReview ==
    /\ Len(cards') = 1
    /\ cards'[1].successCount = ReviewedCard.successCount + 1
    /\ cards'[1].failCount = ReviewedCard.failCount

SM2Delta(q) == 10 - (5 - q) * (8 + (5 - q) * 2)

C8_Chain ==
    (Len(cards) = 1 /\ cards[1].failCount = 0) =>
        /\ cards[1].successCount = 1 => (cards[1].repetitions = 1 /\ cards[1].interval = 1)
        /\ cards[1].successCount = 2 => (cards[1].repetitions = 2 /\ cards[1].interval = 6)
        /\ cards[1].successCount = 3 => (cards[1].repetitions = 3 /\ cards[1].interval = 15)

C8_Step ==
    PassedReview =>
        /\ cards'[1].repetitions = ReviewedCard.repetitions + 1
        /\ cards'[1].interval =
              IF ReviewedCard.repetitions = 0 THEN 1
              ELSE IF ReviewedCard.repetitions = 1 THEN 6
              ELSE MathRoundProduct(ReviewedCard.interval, ReviewedCard.easiness)
        /\ ReviewedCard.repetitions > 1 =>
              100 * cards'[1].interval - ReviewedCard.interval * ReviewedCard.easiness
                 \in -50..50

\* C8: a correct review returns repetitions + 1 and interval 1 if repetitions
\* was 0, 6 if it was 1, otherwise round(interval * easiness); three correct
\* reviews of a new card give (1, 1), (2, 6), (3, 15).
C8_CorrectReview == []C8_Chain /\ [][C8_Step]_vars

\* Three correct reviews of a new card.
C8_Witness ==
    /\ Len(cards) = 1
    /\ cards[1].successCount = 3 /\ cards[1].failCount = 0
    /\ cards[1].repetitions = 3 /\ cards[1].interval = 15

\* One of the first five reviews of a card never failed, answered correctly.
EarlyPassedReview ==
    /\ PassedReview
    /\ ReviewedCard.failCount = 0
    /\ ReviewedCard.successCount < 5

\* C9 as stated: over 5 correct reviews of a new card easiness strictly
\* increases on each call.
C9_Original ==
    [][EarlyPassedReview => cards'[1].easiness > ReviewedCard.easiness]_vars

\* C9 amended: over 5 correct reviews of a new card easiness stays 2.5 on each
\* call; it never increases.
C9_Amended ==
    [][EarlyPassedReview =>
          /\ cards'[1].easiness = ReviewedCard.easiness
          /\ cards'[1].easiness = 250]_vars

\* Five correct reviews of a new card.
C9_Witness ==
    /\ Len(cards) = 1
    /\ cards[1].successCount = 5 /\ cards[1].failCount = 0
    /\ cards[1].easiness = 250

-----------------------------------------------------------------------------
(* Claims about the counters *)

ReviewsOf(f, id) == IF id \in DOMAIN f THEN f[id] ELSE 0
CardWith(cs, id) == CHOOSE c \in Range(cs) : c.patternId = id
SuccessOf(cs, id) == IF id \in CardIds(cs) THEN CardWith(cs, id).successCount ELSE 0
FailOf(cs, id) == IF id \in CardIds(cs) THEN CardWith(cs, id).failCount ELSE 0

C10_Counted ==
    /\ CardIds(cards) = DOMAIN reviews
    /\ \A c \in Range(cards) : c.successCount + c.failCount = reviews[c.patternId]

C10_Step ==
    IF cards # <<>> /\ cards' = <<>>
    THEN ResetProgress
    ELSE \A id \in CardIds(cards) \cup CardIds(cards') :
          LET ds == SuccessOf(cards', id) - SuccessOf(cards, id)
              df == FailOf(cards', id) - FailOf(cards, id)
          IN IF ReviewsOf(reviews', id) = ReviewsOf(reviews, id) + 1
             THEN /\ <<ds, df>> \in {<<1, 0>>, <<0, 1>>}
                  /\ ds = currentSession'.correct - currentSession.correct
             ELSE <<ds, df>> = <<0, 0>>

\* C10: for every card successCount + failCount is the number of reviews
\* applied to it; a review adds 1 to exactly one counter (successCount iff
\* correct) and leaves the other; no counter ever decreases, only resetProgress
\* discards them.
C10_Counters == []C10_Counted /\ [][C10_Step]_vars

\* Two cards, one reviewed with both outcomes, the other once.
C10_Witness ==
    /\ Len(cards) = 2
    /\ \E c \in Range(cards) : c.successCount >= 1 /\ c.failCount >= 1
    /\ \E c \in Range(cards) : c.successCount + c.failCount = 1
    /\ Len(sessionHistory) = 1

-----------------------------------------------------------------------------
(* Calls of pure functions: the provider's state is that of Init and stays. *)

NoProgress ==
    /\ cards = <<>>
    /\ sessionHistory = <<>>
    /\ globalRepetitionCount = 0
    /\ lastMasteredReview = 0
    /\ currentSession = FreshSession
    /\ allPatternIds = ALL_PATTERN_IDS
    /\ selected = Pending
    /\ reviews = <<>>

\* isCardMastered(card) on the cards with counters up to MaxCount.
MasteredInit ==
    /\ NoProgress
    /\ input \in {[card |-> InputCard(getAllPatternIds[1], <<s, f>>, 0)] :
                     s \in 0..MaxCount, f \in 0..MaxCount}
    /\ output = <<>>

MasteredApply ==
    /\ output = <<>>
    /\ output' = <<isCardMastered(input.card)>>
    /\ UNCHANGED <<progress, input>>

SpecMastered == MasteredInit /\ [][MasteredApply]_vars

\* C11: isCardMastered(card) is true iff successCount + failCount >= 5 and
\* successCount / (successCount + failCount) >= 0.90 (9 of 10 as a ratio of
\* integers); it is false below 5 attempts, even at 100% accuracy.
C11_MasteredIff ==
    output # <<>> =>
        LET s == input.card.successCount
            t == input.card.successCount + input.card.failCount
        IN /\ output[1] = (t >= 5 /\ 10 * s >= 9 * t)
           /\ t < 5 => output[1] = FALSE

\* Exactly 5 attempts, all correct: mastered; the floor is inclusive.
C11_Witness ==
    /\ output = <<TRUE>>
    /\ input.card.successCount = 5
    /\ input.card.failCount = 0

-----------------------------------------------------------------------------
(* recordResult on two patterns, in any order and with any outcomes *)

PairTargets == {parsePatternId(getAllPatternIds[i]) : i \in 1..2}

PairRecord ==
    /\ globalRepetitionCount < MaxPairReviews
    /\ \E target \in PairTargets, correct \in BOOLEAN :
          RecordResult(target.piece, target.column, target.rotation, correct)

SpecPair == Init /\ [][PairRecord]_vars

-----------------------------------------------------------------------------
(* Claims about the provider's operations *)

\* C12: after any sequence of recordResult calls from the empty store every
\* card has easiness >= 1.3, interval >= 1 and repetitions >= 0.
C12_CardBounds ==
    \A c \in Range(cards) :
        /\ c.easiness >= 130
        /\ c.interval >= 1
        /\ c.repetitions >= 0

\* Twelve failures and then a correct answer: easiness and interval are both
\* at their lower bound.
C12_Witness ==
    /\ Len(cards) = 1
    /\ cards[1].failCount = 12 /\ cards[1].successCount = 1
    /\ cards[1].easiness = 130
    /\ cards[1].interval = 1

\* The step is a recordResult call: some pattern has one more review.
RecordedStep ==
    \E id \in DOMAIN reviews' : reviews'[id] = ReviewsOf(reviews, id) + 1

C13_Step ==
    /\ RecordedStep => globalRepetitionCount' = globalRepetitionCount + 1
    /\ (SelectNext \/ EndSession \/ StartNewSession) =>
           globalRepetitionCount' = globalRepetitionCount
    /\ ~RecordedStep => globalRepetitionCount' \in {globalRepetitionCount, 0}
    /\ globalRepetitionCount' < globalRepetitionCount => ResetProgress

\* C13: each recordResult call increases globalRepetitionCount by exactly 1;
\* selection, endSession and startNewSession leave it unchanged, and only
\* resetProgress ever decreases it.
C13_CountSteps == [][C13_Step]_vars

\* Two results recorded, a session ended and a pattern selected since.
C13_Witness ==
    /\ globalRepetitionCount = 2
    /\ Len(sessionHistory) = 1
    /\ selected \notin {Pending, Null}
    /\ currentSession.attempts = 1

\* The pattern a recordResult step reviews.
ReviewedId ==
    CHOOSE id \in DOMAIN reviews' : reviews'[id] = ReviewsOf(reviews, id) + 1

\* At least 5 attempts, at least 9 of 10 correct.
MasteredCounts(s, f) == s + f >= 5 /\ 10 * s >= 9 * (s + f)

\* The reviewed pattern's card was mastered before the step / is after it.
MasteredBefore ==
    MasteredCounts(SuccessOf(cards, ReviewedId), FailOf(cards, ReviewedId))
MasteredAfter ==
    MasteredCounts(SuccessOf(cards', ReviewedId), FailOf(cards', ReviewedId))

\* C14: recordResult sets lastMasteredReview to the globalRepetitionCount
\* before its increment if the reviewed pattern's card was mastered before the
\* review, and leaves it unchanged otherwise (a pattern without a card is not
\* mastered).
C14_LastMasteredReview ==
    [][RecordedStep =>
          IF MasteredBefore
          THEN lastMasteredReview' = globalRepetitionCount
          ELSE lastMasteredReview' = lastMasteredReview]_vars

\* A mastered pattern was reviewed at count 6, then the other, unmastered one.
C14_Witness ==
    /\ globalRepetitionCount = 8
    /\ lastMasteredReview = 6
    /\ Len(cards) = 2
    /\ \E c \in Range(cards) : c.successCount + c.failCount = 2

\* C15: each recordResult(p, correct) adds 1 to currentSession.attempts, 1 to
\* currentSession.correct iff correct, p to patternsReviewed, and 1 to
\* patternsMasteredThisSession iff p's card was not mastered before the review
\* and is mastered after it.
C15_SessionCounters ==
    [][RecordedStep =>
          /\ currentSession'.attempts = currentSession.attempts + 1
          /\ currentSession'.correct = currentSession.correct
                + (IF SuccessOf(cards', ReviewedId) > SuccessOf(cards, ReviewedId)
                   THEN 1 ELSE 0)
          /\ currentSession'.patternsReviewed =
                currentSession.patternsReviewed \cup {ReviewedId}
          /\ currentSession'.patternsMasteredThisSession =
                currentSession.patternsMasteredThisSession
                + (IF ~MasteredBefore /\ MasteredAfter THEN 1 ELSE 0)]_vars

\* One pattern mastered, lost and mastered again, the other reviewed once.
C15_Witness ==
    /\ currentSession.patternsMasteredThisSession = 2
    /\ currentSession.attempts = 11
    /\ currentSession.correct = 9
    /\ Cardinality(currentSession.patternsReviewed) = 2

C16_Step ==
    /\ RecordedStep =>
          /\ CardIds(cards') = CardIds(cards) \cup {ReviewedId}
          /\ Len(cards') = Cardinality(CardIds(cards'))
          /\ \A c \in Range(cards) : c.patternId # ReviewedId => c \in Range(cards')
          /\ sessionHistory' = sessionHistory
    /\ ~(CardIds(cards) \subseteq CardIds(cards')) => ResetProgress

\* C16: recordResult for pattern p creates p's card if it is absent and changes
\* only that card: the other cards and sessionHistory stay as they are; no
\* operation except resetProgress removes a card.
C16_OnlyThatCard == [][C16_Step]_vars

\* A session was ended with one card; since then the second pattern's card was
\* created and reviewed again.
C16_Witness ==
    /\ Len(cards) = 2
    /\ Len(sessionHistory) = 1
    /\ cards[1].successCount + cards[1].failCount = 1
    /\ cards[2].successCount + cards[2].failCount = 2
    /\ currentSession.attempts = 2

-----------------------------------------------------------------------------
(* Sessions at the cap of the history.  The initial states are those reached *)
(* from Init by n sessions of one incorrect result on one pattern, each      *)
(* closed by endSession.                                                      *)

DrillId == getAllPatternIds[1]

\* card after n incorrect results recorded at counts g .. g+n-1.  The calls are
\* split in halves, the first half evaluated before the second starts, to keep
\* the evaluation shallow.
RECURSIVE FailedFrom(_, _, _)
FailedFrom(card, n, g) ==
    IF n = 0 THEN card
    ELSE IF n = 1 THEN reviewCard(card, FALSE, g)
    ELSE LET half == n \div 2
         IN CHOOSE last \in {FailedFrom(first, n - half, g + half) :
                                first \in {FailedFrom(card, half, g)}} : TRUE

\* The card after n incorrect results, recorded at counts 0 .. n-1.
FailedTimes(n) == FailedFrom(initCard(DrillId, 0), n, 0)

\* The history after n such sessions: newest first, capped by each endSession.
PriorHistory(n) ==
    Take([i \in 1..n |-> createSessionRecord(1, 0, 1, 0)], MAX_SESSION_HISTORY)

SessionsInit ==
    \E n \in (MaxPriorSessions - 2)..MaxPriorSessions :
        /\ cards = <<FailedTimes(n)>>
        /\ sessionHistory = PriorHistory(n)
        /\ globalRepetitionCount = n
        /\ lastMasteredReview = 0
        /\ currentSession = FreshSession
        /\ allPatternIds = ALL_PATTERN_IDS
        /\ selected = Pending
        /\ reviews = [id \in {DrillId} |-> n]
        /\ input = <<>>
        /\ output = <<>>

SessionsRecord ==
    /\ globalRepetitionCount < MaxPriorSessions + MaxMoreResults
    /\ \E correct \in BOOLEAN :
          RecordResult(DrillTarget.piece, DrillTarget.column, DrillTarget.rotation, correct)

SessionsNext ==
    \/ SessionsRecord
    \/ EndSession
    \/ StartNewSession

SpecSessions == SessionsInit /\ [][SessionsNext]_vars

C17_NoEmptyRecord ==
    \A i \in 1..Len(sessionHistory) : sessionHistory[i].totalAttempts > 0

C17_Step ==
    /\ (currentSession.attempts = 0 /\ EndSession) =>
          UNCHANGED <<sessionHistory, cards, globalRepetitionCount,
                      lastMasteredReview, currentSession>>
    /\ currentSession.attempts = 0 => sessionHistory' = sessionHistory

\* C17: endSession with currentSession.attempts = 0 changes nothing
\* (sessionHistory, cards, globalRepetitionCount, lastMasteredReview,
\* currentSession), so no record of sessionHistory has totalAttempts = 0.
C17_EmptySessionNoOp == []C17_NoEmptyRecord /\ [][C17_Step]_vars

\* A session of one result was ended at the cap: the current session is empty
\* again and endSession can be called on it.
C17_Witness ==
    /\ currentSession.attempts = 0
    /\ Len(sessionHistory) = 100
    /\ globalRepetitionCount = 101
    /\ sessionHistory[1].correctAttempts = 1

C18_Capped == Len(sessionHistory) <= 100

C18_Step ==
    /\ (currentSession.attempts > 0 /\ EndSession) =>
          /\ Len(sessionHistory') =
                (IF Len(sessionHistory) < 100 THEN Len(sessionHistory) + 1 ELSE 100)
          /\ sessionHistory'[1].totalAttempts = currentSession.attempts
          /\ sessionHistory'[1].correctAttempts = currentSession.correct
          /\ sessionHistory'[1].accuracy[1] * currentSession.attempts =
                currentSession.correct * sessionHistory'[1].accuracy[2]
          /\ sessionHistory'[1].accuracy[2] > 0
          /\ sessionHistory'[1].patternsReviewed =
                Cardinality(currentSession.patternsReviewed)
          /\ sessionHistory'[1].newPatternsMastered =
                currentSession.patternsMasteredThisSession
          /\ \A i \in 2..Len(sessionHistory') : sessionHistory'[i] = sessionHistory[i - 1]
          /\ currentSession' = [attempts |-> 0, correct |-> 0,
                                patternsReviewed |-> {},
                                patternsMasteredThisSession |-> 0]
    /\ sessionHistory' # sessionHistory => (currentSession.attempts > 0 /\ EndSession)

\* C18: endSession with attempts > 0 puts the record of the session counters
\* at the head of sessionHistory, keeps the earlier records after it in their
\* order, drops the oldest beyond 100, and resets currentSession; the history
\* never holds more than 100 records.
C18_SessionRecorded == []C18_Capped /\ [][C18_Step]_vars

\* At the cap two more sessions were ended: both records are at the head,
\* newest first, and the history still holds 100 records.
C18_Witness ==
    /\ Len(sessionHistory) = 100
    /\ globalRepetitionCount = 103
    /\ sessionHistory[1].totalAttempts = 2 /\ sessionHistory[1].correctAttempts = 1
    /\ sessionHistory[2].totalAttempts = 1 /\ sessionHistory[2].correctAttempts = 1
    /\ sessionHistory[3].correctAttempts = 0
    /\ currentSession.attempts = 0

-----------------------------------------------------------------------------
(* compareMoves (lib/finesse-data) *)

\* The FinesseMove strings in the order Array.prototype.sort() puts them
\* (by UTF-16 code units).
MoveOrder == <<"C", "CC", "DL", "DR", "DROP", "L", "R", "SD">>
MoveRank(move) == CHOOSE i \in 1..Len(MoveOrder) : MoveOrder[i] = move

RECURSIVE InsertMove(_, _)
InsertMove(sorted, move) ==
    IF sorted = <<>> THEN <<move>>
    ELSE IF MoveRank(move) < MoveRank(Head(sorted)) THEN <<move>> \o sorted
    ELSE <<Head(sorted)>> \o InsertMove(Tail(sorted), move)

\* [...moves].sort()
RECURSIVE SortMoves(_)
SortMoves(moves) ==
    IF moves = <<>> THEN <<>>
    ELSE InsertMove(SortMoves(SubSeq(moves, 1, Len(moves) - 1)), moves[Len(moves)])

\* null where a list of move sequences is expected.
NullList == <<Null>>

\* playerMoves.includes(move)
Includes(moves, move) == \E i \in 1..Len(moves) : moves[i] = move

\* Mutant of MatchesSequence: the sequences are compared without sorting.
MatchesSequenceOrdered(playerMoves, validSequence) ==
    /\ Len(playerMoves) = Len(validSequence)
    /\ \A i \in 1..Len(playerMoves) : playerMoves[i] = validSequence[i]

\* The body of the loop: the lengths agree and the sorted sequences agree in
\* every position.
MatchesSequence(playerMoves, validSequence) ==
    /\ Len(playerMoves) = Len(validSequence)
    /\ LET sortedPlayer == SortMoves(playerMoves)
           sortedValid == SortMoves(validSequence)
       IN \A i \in 1..Len(sortedPlayer) : sortedPlayer[i] = sortedValid[i]

\* Mutant of compareMoves: the soft-drop test comes before the test of the
\* arguments.
compareMovesSoftDropFirst(playerMoves, targetMoves) ==
    IF playerMoves # Null /\ Includes(playerMoves, "SD") THEN TRUE
    ELSE IF playerMoves = Null \/ targetMoves = NullList \/ Len(targetMoves) = 0 THEN FALSE
    ELSE IF Len(playerMoves) < Len(targetMoves[1]) THEN TRUE
    ELSE \E k \in 1..Len(targetMoves) : MatchesSequence(playerMoves, targetMoves[k])

\* Mutant of compareMoves: the test for fewer moves than optimal is lost.
compareMovesNoShortcut(playerMoves, targetMoves) ==
    IF playerMoves = Null \/ targetMoves = NullList \/ Len(targetMoves) = 0 THEN FALSE
    ELSE IF Includes(playerMoves, "SD") THEN TRUE
    ELSE \E k \in 1..Len(targetMoves) : MatchesSequence(playerMoves, targetMoves[k])

\* Mutant of compareMoves: the soft-drop test is lost.
compareMovesNoSoftDrop(playerMoves, targetMoves) ==
    IF playerMoves = Null \/ targetMoves = NullList \/ Len(targetMoves) = 0 THEN FALSE
    ELSE IF Len(playerMoves) < Len(targetMoves[1]) THEN TRUE
    ELSE \E k \in 1..Len(targetMoves) : MatchesSequence(playerMoves, targetMoves[k])

compareMoves(playerMoves, targetMoves) ==
    IF playerMoves = Null \/ targetMoves = NullList \/ Len(targetMoves) = 0 THEN FALSE
    ELSE IF Len(playerMoves) < Len(targetMoves[1]) THEN TRUE
    ELSE IF Includes(playerMoves, "SD") THEN TRUE
    ELSE \E k \in 1..Len(targetMoves) : MatchesSequence(playerMoves, targetMoves[k])

\* The inputs: sequences of at most MaxMoveLen of these moves; no, one or two
\* target sequences; null for either argument.
InputMoves == {"L", "SD", "DROP"}
MoveSeqs == UNION {[1..n -> InputMoves] : n \in 0..MaxMoveLen}
TargetLists ==
    {<<>>} \cup {<<a>> : a \in MoveSeqs} \cup {<<a, b>> : a \in MoveSeqs, b \in MoveSeqs}

CompareInit ==
    /\ NoProgress
    /\ input \in [playerMoves : MoveSeqs \cup {Null}, targetMoves : TargetLists \cup {NullList}]
    /\ output = <<>>

CompareApply ==
    /\ output = <<>>
    /\ output' = <<compareMoves(input.playerMoves, input.targetMoves)>>
    /\ UNCHANGED <<progress, input>>

SpecCompare == CompareInit /\ [][CompareApply]_vars

\* playerMoves is a sequence that contains SD.
PlayedSoftDrop ==
    /\ input.playerMoves # Null
    /\ \E i \in 1..Len(input.playerMoves) : input.playerMoves[i] = "SD"

\* targetMoves is the empty list.
NoTargets == input.targetMoves # NullList /\ Len(input.targetMoves) = 0

\* C19 as stated: compareMoves is true whenever the played sequence contains
\* SD, whatever targets contains.
C19_Original == (output # <<>> /\ PlayedSoftDrop) => output[1] = TRUE

\* C19 amended: compareMoves is true whenever the played sequence contains SD
\* and targets is not empty; with empty targets it is false.
C19_Amended ==
    (output # <<>> /\ PlayedSoftDrop /\ input.targetMoves # NullList) =>
        output[1] = (Len(input.targetMoves) > 0)

\* A soft drop among as many moves as the first target has, which it does not
\* match: true by the soft-drop rule alone.
C19_Witness ==
    /\ output = <<TRUE>>
    /\ input.playerMoves = <<"SD", "L">>
    /\ input.targetMoves = <<<<"L", "DROP">>>>

\* C20: compareMoves is false whenever targets is empty, for every played
\* sequence (the empty one and those with a soft drop included).
C20_NoTargetsFalse == (output # <<>> /\ NoTargets) => output[1] = FALSE

\* Empty targets, a played sequence with a soft drop.
C20_Witness ==
    /\ output = <<FALSE>>
    /\ NoTargets
    /\ PlayedSoftDrop

\* targetMoves is a list with at least one sequence, playerMoves a sequence.
SomeTargets ==
    /\ input.playerMoves # Null
    /\ input.targetMoves # NullList
    /\ Len(input.targetMoves) > 0

\* C21: compareMoves is true whenever targets is not empty and the played
\* sequence is shorter than targets[0], whatever moves it contains.
C21_ShorterIsCorrect ==
    (output # <<>> /\ SomeTargets
        /\ Len(input.playerMoves) < Len(input.targetMoves[1])) => output[1] = TRUE

\* One move, which the first target of two moves does not contain, and no soft
\* drop.
C21_Witness ==
    /\ output = <<TRUE>>
    /\ input.playerMoves = <<"L">>
    /\ input.targetMoves = <<<<"DROP", "DROP">>>>

\* How often move occurs in moves.
RECURSIVE CountMove(_, _)
CountMove(moves, move) ==
    IF moves = <<>> THEN 0
    ELSE (IF Head(moves) = move THEN 1 ELSE 0) + CountMove(Tail(moves), move)

SameMultiset(a, b) ==
    /\ Len(a) = Len(b)
    /\ \A move \in Range(MoveOrder) : CountMove(a, move) = CountMove(b, move)

\* C22: with targets not empty, and a played sequence without soft drop and
\* not shorter than targets[0], compareMoves is true iff some sequence of
\* targets has the length and the multiset of moves of the played sequence (so
\* the order of the played moves does not matter).
C22_MultisetMatch ==
    (output # <<>> /\ SomeTargets /\ ~PlayedSoftDrop
        /\ Len(input.playerMoves) >= Len(input.targetMoves[1])) =>
        output[1] = (\E k \in 1..Len(input.targetMoves) :
                        SameMultiset(input.playerMoves, input.targetMoves[k]))

\* The played moves are those of the second target in another order.
C22_Witness ==
    /\ output = <<TRUE>>
    /\ input.playerMoves = <<"L", "DROP">>
    /\ input.targetMoves = <<<<"L">>, <<"DROP", "L">>>>

-----------------------------------------------------------------------------
\* isValidMovePrefix (lib/finesse-data)

\* normalizeMoves: the moves other than DROP and SD, in their order.
RECURSIVE normalizeMoves(_)
normalizeMoves(moves) ==
    IF moves = <<>> THEN <<>>
    ELSE IF Head(moves) = "DROP" \/ Head(moves) = "SD" THEN normalizeMoves(Tail(moves))
    ELSE <<Head(moves)>> \o normalizeMoves(Tail(moves))

\* The first loop of the body: the played moves are the start of the sequence.
IsPrefixOf(normalizedPlayer, normalizedValid) ==
    /\ Len(normalizedPlayer) <= Len(normalizedValid)
    /\ \A i \in 1..Len(normalizedPlayer) : normalizedPlayer[i] = normalizedValid[i]

\* [...normalizedValid].slice(0, n)
SliceTo(moves, n) == SubSeq(moves, 1, IF n < Len(moves) THEN n ELSE Len(moves))

\* The second test of the body: the sorted played moves against the sorted
\* start of the sequence.
IsSortedPrefixOf(normalizedPlayer, normalizedValid) ==
    LET sortedPlayer == SortMoves(normalizedPlayer)
        sortedValidPrefix == SortMoves(SliceTo(normalizedValid, Len(normalizedPlayer)))
    IN  /\ Len(sortedPlayer) = Len(sortedValidPrefix)
        /\ \A i \in 1..Len(sortedPlayer) : sortedPlayer[i] = sortedValidPrefix[i]

\* Mutant of isValidMovePrefix: the order-independent test is lost.
isValidMovePrefixOrdered(playerMoves, targetMoves) ==
    IF targetMoves = NullList \/ Len(targetMoves) = 0 THEN TRUE
    ELSE IF playerMoves = Null \/ Len(playerMoves) = 0 THEN TRUE
    ELSE IF Len(normalizeMoves(playerMoves)) = 0 THEN TRUE
    ELSE \E k \in 1..Len(targetMoves) :
            IsPrefixOf(normalizeMoves(playerMoves), normalizeMoves(targetMoves[k]))

isValidMovePrefix(playerMoves, targetMoves) ==
    IF targetMoves = NullList \/ Len(targetMoves) = 0 THEN TRUE
    ELSE IF playerMoves = Null \/ Len(playerMoves) = 0 THEN TRUE
    ELSE IF Len(normalizeMoves(playerMoves)) = 0 THEN TRUE
    ELSE \E k \in 1..Len(targetMoves) :
            \/ IsPrefixOf(normalizeMoves(playerMoves), normalizeMoves(targetMoves[k]))
            \/ IsSortedPrefixOf(normalizeMoves(playerMoves), normalizeMoves(targetMoves[k]))

\* The inputs: played sequences of up to MaxMoveLen moves, and up to two target
\* sequences of up to MaxMoveLen + 1 shifts, with or without the final DROP.
PlayedMoves == {"L", "R", "DROP", "SD"}
PlayedSeqs == UNION {[1..n -> PlayedMoves] : n \in 0..MaxMoveLen}
ShiftSeqs == UNION {[1..n -> {"L", "R"}] : n \in 0..(MaxMoveLen + 1)}
PrefixTargets == ShiftSeqs \cup {a \o <<"DROP">> : a \in ShiftSeqs}
PrefixTargetLists ==
    {<<>>} \cup {<<a>> : a \in PrefixTargets}
           \cup {<<a, b>> : a \in PrefixTargets, b \in PrefixTargets}

PrefixInit ==
    /\ NoProgress
    /\ input \in [playerMoves : PlayedSeqs \cup {Null},
                  targetMoves : PrefixTargetLists \cup {NullList}]
    /\ output = <<>>

PrefixApply ==
    /\ output = <<>>
    /\ output' = <<isValidMovePrefix(input.playerMoves, input.targetMoves)>>
    /\ UNCHANGED <<progress, input>>

SpecPrefix == PrefixInit /\ [][PrefixApply]_vars

\* The moves that are neither DROP nor SD.
Shifts(moves) == SelectSeq(moves, LAMBDA move : move \notin {"DROP", "SD"})

\* a is the start of b, move for move.
OrderedPrefix(a, b) == Len(a) <= Len(b) /\ SubSeq(b, 1, Len(a)) = a

\* a has the moves of the first Len(a) moves of b, in any order.
MultisetPrefix(a, b) == Len(a) <= Len(b) /\ SameMultiset(a, SubSeq(b, 1, Len(a)))

PlayedNothing == input.playerMoves = Null \/ input.playerMoves = <<>>

\* targetMoves is null or an empty list.
TargetsNothing == input.targetMoves = NullList \/ input.targetMoves = <<>>

\* C23: isValidMovePrefix is true when played or targets is empty; otherwise,
\* with DROP and SD removed from both sides, it is true iff for some target the
\* played moves are an ordered prefix of the target or have the multiset of the
\* target's first moves of their number; played moves longer than every target
\* are rejected.
C23_PrefixIff ==
    output # <<>> =>
        /\ (PlayedNothing \/ TargetsNothing) => output[1] = TRUE
        /\ ~(PlayedNothing \/ TargetsNothing) =>
            /\ output[1] = (\E k \in 1..Len(input.targetMoves) :
                    \/ OrderedPrefix(Shifts(input.playerMoves), Shifts(input.targetMoves[k]))
                    \/ MultisetPrefix(Shifts(input.playerMoves), Shifts(input.targetMoves[k])))
            /\ (\A k \in 1..Len(input.targetMoves) :
                    Len(Shifts(input.playerMoves)) > Len(Shifts(input.targetMoves[k])))
                => output[1] = FALSE

\* The played moves are not a prefix of the target but are its first two moves
\* in the other order.
C23_Witness ==
    /\ output = <<TRUE>>
    /\ input.playerMoves = <<"R", "L">>
    /\ input.targetMoves = <<<<"L", "R", "L", "DROP">>>>

-----------------------------------------------------------------------------
\* The table of optimal moves and getOptimalMoves (lib/finesse-data)

\* Mutant of MovesOfPiece: one layer of one column, whose second sequence is
\* longer than the first.
MovesOfPieceUneven(i) == << << << <<"DROP">>, <<"L", "DROP">> >> >> >>

\* Mutant of MovesOfPiece: one layer of one column, whose sequence has no DROP.
MovesOfPieceShort(i) == << << << <<"L">> >> >> >>

\* The layers of piece i: layer, then column, then the alternative sequences.
MovesOfPiece(i) ==
       CASE i = 0 ->
              << << <<<<"DL", "DROP">>>>,
                    <<<<"L", "L", "DROP">>, <<"DL", "R", "DROP">>>>,
                    <<<<"L", "DROP">>>>,
                    <<<<"DROP">>>>,
                    <<<<"R", "DROP">>>>,
                    <<<<"R", "R", "DROP">>>>,
                    <<<<"DR", "L", "DROP">>>>,
                    <<<<"DR", "DROP">>>> >>,
                 << <<<<"CC", "DL", "DROP">>>>,
                    <<<<"DL", "C", "DROP">>>>,
                    <<<<"CC", "L", "DROP">>>>,
                    <<<<"CC", "DROP">>>>,
                    <<<<"C", "DROP">>>>,
                    <<<<"C", "R", "DROP">>>>,
                    <<<<"C", "R", "R", "DROP">>, <<"DR", "L", "CC", "DROP">>>>,
                    <<<<"DR", "CC", "DROP">>>>,
                    <<<<"C", "DR", "DROP">>>> >> >>
         [] i = 1 ->
              << << <<<<"DL", "DROP">>>>,
                    <<<<"L", "L", "DROP">>, <<"DL", "R", "DROP">>>>,
                    <<<<"L", "DROP">>>>,
                    <<<<"DROP">>>>,
                    <<<<"R", "DROP">>>>,
                    <<<<"R", "R", "DROP">>>>,
                    <<<<"DR", "L", "DROP">>>>,
                    <<<<"DR", "DROP">>>> >>,
                 << <<<<"CC", "DL", "DROP">>>>,
                    <<<<"DL", "C", "DROP">>>>,
                    <<<<"CC", "L", "DROP">>>>,
                    <<<<"CC", "DROP">>>>,
                    <<<<"C", "DROP">>>>,
                    <<<<"C", "R", "DROP">>>>,
                    <<<<"C", "R", "R", "DROP">>, <<"DR", "L", "CC", "DROP">>>>,
                    <<<<"DR", "CC", "DROP">>>>,
                    <<<<"C", "DR", "DROP">>>> >> >>
         [] i = 2 ->
              << << <<<<"DL", "DROP">>>>,
                    <<<<"L", "L", "DROP">>, <<"DL", "R", "DROP">>>>,
                    <<<<"L", "DROP">>>>,
                    <<<<"DROP">>>>,
                    <<<<"R", "DROP">>>>,
                    <<<<"R", "R", "DROP">>, <<"DR", "L", "DROP">>>>,
                    <<<<"DR", "DROP">>>> >>,
                 << <<<<"CC", "DL", "DROP">>>>,
                    <<<<"DL", "CC", "DROP">>>>,
                    <<<<"DL", "C", "DROP">>>>,
                    <<<<"L", "CC", "DROP">>>>,
                    <<<<"CC", "DROP">>>>,
                    <<<<"C", "DROP">>>>,
                    <<<<"R", "C", "DROP">>>>,
                    <<<<"DR", "CC", "DROP">>>>,
                    <<<<"DR", "C", "DROP">>>>,
                    <<<<"C", "DR", "DROP">>>> >> >>
         [] i = 3 ->
              << << <<<<"DL", "DROP">>>>,
                    <<<<"L", "L", "DROP">>, <<"DL", "R", "DROP">>>>,
                    <<<<"L", "DROP">>>>,
                    <<<<"DROP">>>>,
                    <<<<"R", "DROP">>>>,
                    <<<<"R", "R", "DROP">>>>,
                    <<<<"DR", "L", "DROP">>>>,
                    <<<<"DR", "DROP">>>> >>,
                 << <<<<"C", "DL", "DROP">>>>,
                    <<<<"DL", "C", "DROP">>>>,
                    <<<<"C", "L", "L", "DROP">>, <<"DL", "R", "C", "DROP">>>>,
                    <<<<"C", "L", "DROP">>>>,
                    <<<<"C", "DROP">>>>,
                    <<<<"C", "R", "DROP">>>>,
                    <<<<"C", "R", "R", "DROP">>>>,
                    <<<<"C", "DR", "L", "DROP">>>>,
                    <<<<"DR", "C", "DROP">>>> >>,
                 << <<<<"DL", "C", "C", "DROP">>, <<"DL", "CC", "CC", "DROP">>>>,
                    <<<<"L", "L", "C", "C", "DROP">>, <<"DL", "R", "C", "C", "DROP">>>>,
                    <<<<"L", "C", "C", "DROP">>, <<"L", "CC", "CC", "DROP">>>>,
                    <<<<"C", "C", "DROP">>, <<"CC", "CC", "DROP">>>>,
                    <<<<"R", "C", "C", "DROP">>, <<"R", "CC", "CC", "DROP">>>>,
                    <<<<"R", "R", "C", "C", "DROP">>, <<"R", "R", "CC", "CC", "DROP">>>>,
                    <<<<"DR", "L", "C", "C", "DROP">>, <<"DR", "L", "CC", "CC", "DROP">>>>,
                    <<<<"DR", "C", "C", "DROP">>, <<"DR", "CC", "CC", "DROP">>>> >>,
                 << <<<<"CC", "DL", "DROP">>>>,
                    <<<<"CC", "L", "L", "DROP">>, <<"DL", "R", "CC", "DROP">>>>,
                    <<<<"CC", "L", "DROP">>>>,
                    <<<<"CC", "DROP">>>>,
                    <<<<"CC", "R", "DROP">>>>,
                    <<<<"CC", "R", "R", "DROP">>>>,
                    <<<<"DR", "L", "CC", "DROP">>>>,
                    <<<<"DR", "CC", "DROP">>>>,
                    <<<<"CC", "DR", "DROP">>>> >> >>
         [] i = 4 ->
              << << <<<<"DL", "DROP">>>>,
                    <<<<"DL", "R", "DROP">>>>,
                    <<<<"L", "L", "DROP">>>>,
                    <<<<"L", "DROP">>>>,
                    <<<<"DROP">>>>,
                    <<<<"R", "DROP">>>>,
                    <<<<"R", "R", "DROP">>>>,
                    <<<<"DR", "L", "DROP">>>>,
                    <<<<"DR", "DROP">>>> >> >>
         [] i = 5 ->
              << << <<<<"DL", "DROP">>>>,
                    <<<<"L", "L", "DROP">>, <<"DL", "R", "DROP">>>>,
                    <<<<"L", "DROP">>>>,
                    <<<<"DROP">>>>,
                    <<<<"R", "DROP">>>>,
                    <<<<"R", "R", "DROP">>>>,
                    <<<<"DR", "L", "DROP">>>>,
                    <<<<"DR", "DROP">>>> >>,
                 << <<<<"C", "DL", "DROP">>>>,
                    <<<<"DL", "C", "DROP">>>>,
                    <<<<"C", "L", "L", "DROP">>, <<"DL", "R", "C", "DROP">>>>,
                    <<<<"C", "L", "DROP">>>>,
                    <<<<"C", "DROP">>>>,
                    <<<<"C", "R", "DROP">>>>,
                    <<<<"C", "R", "R", "DROP">>>>,
                    <<<<"C", "DR", "L", "DROP">>>>,
                    <<<<"DR", "C", "DROP">>>> >>,
                 << <<<<"DL", "C", "C", "DROP">>, <<"DL", "CC", "CC", "DROP">>>>,
                    <<<<"L", "L", "C", "C", "DROP">>, <<"DL", "R", "C", "C", "DROP">>>>,
                    <<<<"L", "C", "C", "DROP">>, <<"L", "CC", "CC", "DROP">>>>,
                    <<<<"C", "C", "DROP">>, <<"CC", "CC", "DROP">>>>,
                    <<<<"R", "C", "C", "DROP">>, <<"R", "CC", "CC", "DROP">>>>,
                    <<<<"R", "R", "C", "C", "DROP">>, <<"R", "R", "CC", "CC", "DROP">>>>,
                    <<<<"DR", "L", "C", "C", "DROP">>, <<"DR", "L", "CC", "CC", "DROP">>>>,
                    <<<<"DR", "C", "C", "DROP">>, <<"DR", "CC", "CC", "DROP">>>> >>,
                 << <<<<"CC", "DL", "DROP">>>>,
                    <<<<"CC", "L", "L", "DROP">>, <<"DL", "R", "CC", "DROP">>>>,
                    <<<<"CC", "L", "DROP">>>>,
                    <<<<"CC", "DROP">>>>,
                    <<<<"CC", "R", "DROP">>>>,
                    <<<<"CC", "R", "R", "DROP">>>>,
                    <<<<"DR", "L", "CC", "DROP">>>>,
                    <<<<"DR", "CC", "DROP">>>>,
                    <<<<"CC", "DR", "DROP">>>> >> >>
         [] i = 6 ->
              << << <<<<"DL", "DROP">>>>,
                    <<<<"L", "L", "DROP">>, <<"DL", "R", "DROP">>>>,
                    <<<<"L", "DROP">>>>,
                    <<<<"DROP">>>>,
                    <<<<"R", "DROP">>>>,
                    <<<<"R", "R", "DROP">>>>,
                    <<<<"DR", "L", "DROP">>>>,
                    <<<<"DR", "DROP">>>> >>,
                 << <<<<"C", "DL", "DROP">>>>,
                    <<<<"DL", "C", "DROP">>>>,
                    <<<<"C", "L", "L", "DROP">>, <<"DL", "R", "C", "DROP">>>>,
                    <<<<"C", "L", "DROP">>>>,
                    <<<<"C", "DROP">>>>,
                    <<<<"C", "R", "DROP">>>>,
                    <<<<"C", "R", "R", "DROP">>>>,
                    <<<<"C", "DR", "L", "DROP">>>>,
                    <<<<"DR", "C", "DROP">>>> >>,
                 << <<<<"DL", "C", "C", "DROP">>, <<"DL", "CC", "CC", "DROP">>>>,
                    <<<<"L", "L", "C", "C", "DROP">>, <<"DL", "R", "C", "C", "DROP">>>>,
                    <<<<"L", "C", "C", "DROP">>, <<"L", "CC", "CC", "DROP">>>>,
                    <<<<"C", "C", "DROP">>, <<"CC", "CC", "DROP">>>>,
                    <<<<"R", "C", "C", "DROP">>, <<"R", "CC", "CC", "DROP">>>>,
                    <<<<"R", "R", "C", "C", "DROP">>, <<"R", "R", "CC", "CC", "DROP">>>>,
                    <<<<"DR", "L", "C", "C", "DROP">>, <<"DR", "L", "CC", "CC", "DROP">>>>,
                    <<<<"DR", "C", "C", "DROP">>, <<"DR", "CC", "CC", "DROP">>>> >>,
                 << <<<<"CC", "DL", "DROP">>>>,
                    <<<<"CC", "L", "L", "DROP">>, <<"DL", "R", "CC", "DROP">>>>,
                    <<<<"CC", "L", "DROP">>>>,
                    <<<<"CC", "DROP">>>>,
                    <<<<"CC", "R", "DROP">>>>,
                    <<<<"CC", "R", "R", "DROP">>>>,
                    <<<<"DR", "L", "CC", "DROP">>>>,
                    <<<<"DR", "CC", "DROP">>>>,
                    <<<<"CC", "DR", "DROP">>>> >> >>

\* FINESSE_MOVES[pieceIndex][layer][column] = the sequences, any of which is optimal
FINESSE_MOVES == [i \in 0..6 |-> MovesOfPiece(i)]

\* a % b of JavaScript for b > 0: the result has the sign of a.
Remainder(a, b) == IF a >= 0 THEN a % b ELSE 0 - ((0 - a) % b)

\* Mutant of ArrayIndex: the rotation is the layer for every piece.
ArrayIndexDirect(layers, rotationIndex) == rotationIndex

\* The layer of a rotation, from the number of layers of the piece.
ArrayIndex(layers, rotationIndex) ==
    IF layers = 1 THEN 0
    ELSE IF layers = 2 THEN Remainder(rotationIndex, 2)
    ELSE rotationIndex

\* An index outside an array reads undefined, which each test of the function
\* turns into [].
getOptimalMoves(pieceIndex, columnIndex, rotationIndex) ==
    IF pieceIndex \notin DOMAIN FINESSE_MOVES THEN <<>>
    ELSE LET pieceData == FINESSE_MOVES[pieceIndex]
             arrayIndex == ArrayIndex(Len(pieceData), rotationIndex)
         IN  IF arrayIndex + 1 \notin DOMAIN pieceData THEN <<>>
             ELSE IF columnIndex + 1 \notin DOMAIN pieceData[arrayIndex + 1] THEN <<>>
             ELSE pieceData[arrayIndex + 1][columnIndex + 1]

\* The arguments: every index of the table and IndexSlack more on each side.
IndexSlack == 2

OptimalInit ==
    /\ NoProgress
    /\ input \in [pieceIndex : (0 - IndexSlack)..(6 + IndexSlack),
                  columnIndex : (0 - IndexSlack)..(9 + IndexSlack),
                  rotationIndex : (0 - IndexSlack)..(3 + IndexSlack)]
    /\ output = <<>>

OptimalApply ==
    /\ output = <<>>
    /\ output' = <<getOptimalMoves(input.pieceIndex, input.columnIndex,
                                   input.rotationIndex)>>
    /\ UNCHANGED <<progress, input>>

SpecOptimal == OptimalInit /\ [][OptimalApply]_vars

\* The layer the statement gives a piece and a rotation; the remainder keeps
\* the sign of the rotation, as % does.
LayerOf(pieceType, rotation) ==
    CASE pieceType = "O" -> 0
      [] pieceType \in {"Z", "S", "I"} ->
            IF rotation >= 0 THEN rotation % 2 ELSE 0 - ((0 - rotation) % 2)
      [] OTHER -> rotation

\* The piece, its layer and the column are all indices of the table.
InTable(pieceIndex, layer, columnIndex) ==
    /\ pieceIndex \in 0..6
    /\ layer \in 0..(Len(FINESSE_MOVES[pieceIndex]) - 1)
    /\ columnIndex \in 0..(Len(FINESSE_MOVES[pieceIndex][layer + 1]) - 1)

\* C24: getOptimalMoves returns FINESSE_MOVES[piece][layer][columnIndex], with
\* layer 0 for O, rotation % 2 for Z, S and I and the rotation for T, L and J,
\* and returns the empty list whenever the piece, the layer or the column is
\* not an index of the table, negative ones included.
C24_TableEntryOrEmpty ==
    output # <<>> =>
        LET layer == IF input.pieceIndex \in 0..6
                     THEN LayerOf(PIECE_INDEX_TO_TYPE[input.pieceIndex], input.rotationIndex)
                     ELSE 0
        IN  output[1] = IF InTable(input.pieceIndex, layer, input.columnIndex)
                        THEN FINESSE_MOVES[input.pieceIndex][layer + 1][input.columnIndex + 1]
                        ELSE <<>>

\* Z with rotation -1: the remainder is -1, no layer, and the result is [].
C24_Witness ==
    /\ input = [pieceIndex |-> 0, columnIndex |-> 0, rotationIndex |-> -1]
    /\ output = << <<>> >>

-----------------------------------------------------------------------------
\* createPatternId and parsePatternId, one after the other (lib/sm2)

\* The columns and rotations of the arguments: those of the table, 0..9 and
\* 0..3, and columns of two digits.
MaxColumn == 12
MaxRotation == 3
PieceTypes == {PIECE_INDEX_TO_TYPE[i] : i \in 0..6}
Triples == [piece : PieceTypes, column : 0..MaxColumn, rotation : 0..MaxRotation]

RoundTripInit ==
    /\ NoProgress
    /\ input \in Triples
    /\ output = <<>>

RoundTripApply ==
    /\ output = <<>>
    /\ LET id == createPatternId(input.piece, input.column, input.rotation)
       IN  output' = <<[id |-> id, parsed |-> parsePatternId(id)]>>
    /\ UNCHANGED <<progress, input>>

SpecRoundTrip == RoundTripInit /\ [][RoundTripApply]_vars

\* C25: parsePatternId(createPatternId(p, col, rot)) = (p, col, rot) for every
\* piece type and every non-negative column and rotation, so that no other
\* triple has the id of this one.
C25_RoundTrip ==
    output # <<>> =>
        /\ output[1].parsed = input
        /\ \A other \in Triples :
              createPatternId(other.piece, other.column, other.rotation) = output[1].id
                  => other = input

\* A column of two digits has been written and read back.
C25_Witness ==
    /\ output # <<>>
    /\ input = [piece |-> "I", column |-> 10, rotation |-> 3]
    /\ output[1].id = <<"I", "_", "1", "0", "_", "3">>
    /\ output[1].parsed.column = 10

-----------------------------------------------------------------------------
\* selectNextLearningPattern: from the selected id to the target and its moves

PIECE_TYPE_TO_INDEX ==
    [t \in PieceTypes |->
       CASE t = "Z" -> 0 [] t = "S" -> 1 [] t = "I" -> 2 [] t = "T" -> 3
         [] t = "O" -> 4 [] t = "L" -> 5 [] t = "J" -> 6]

\* Mutant of ColIndex: the search is lost and the first column is taken.
ColIndexFirst(positions, column, rotation) == 0

\* The first index of positions that holds (column, rotation), or 0.
ColIndex(positions, column, rotation) ==
    LET found == {i \in 1..Len(positions) :
                    positions[i][1] = column /\ positions[i][2] = rotation}
    IN  IF found = {} THEN 0
        ELSE (CHOOSE i \in found : \A k \in found : i <= k) - 1

\* What selectNextLearningPattern returns for the id selectNextPattern gave it.
ResolvePattern(patternId) ==
    LET parsed == parsePatternId(patternId)
        pieceIndex == PIECE_TYPE_TO_INDEX[parsed.piece]
        rotations == FINESSE_TARGETS[pieceIndex]
        arrayIndex == ArrayIndex(Len(rotations), parsed.rotation)
        positions == rotations[arrayIndex + 1]
        colIndex == ColIndex(positions, parsed.column, parsed.rotation)
    IN  [piece |-> parsed.piece,
         column |-> parsed.column,
         rotation |-> parsed.rotation,
         moves |-> getOptimalMoves(pieceIndex, colIndex, arrayIndex)]

\* The ids of getAllPatternIds, each with the place of the table it was read from.
TablePlaces ==
    {[pieceIndex |-> p, rotIndex |-> i - 1, colIndex |-> j - 1,
      patternId |-> createPatternId(PIECE_INDEX_TO_TYPE[p],
                                    FINESSE_TARGETS[p][i][j][1],
                                    FINESSE_TARGETS[p][i][j][2])] :
        <<p, i, j>> \in {<<p, i, j>> \in (0..6) \X (1..4) \X (1..10) :
                            /\ i <= Len(FINESSE_TARGETS[p])
                            /\ j <= Len(FINESSE_TARGETS[p][i])}}

ResolveInit ==
    /\ NoProgress
    /\ input \in TablePlaces
    /\ output = <<>>

ResolveApply ==
    /\ output = <<>>
    /\ output' = <<ResolvePattern(input.patternId)>>
    /\ UNCHANGED <<progress, input>>

SpecResolve == ResolveInit /\ [][ResolveApply]_vars

\* C26: for the id of piece p, layer i and position j of FINESSE_TARGETS, with
\* column c and rotation r there, the resolution gives the piece, c, r and the
\* moves FINESSE_MOVES[p][i][j], which are not empty.
C26_ResolvesToTableEntry ==
    output # <<>> =>
        LET place == FINESSE_TARGETS[input.pieceIndex][input.rotIndex + 1][input.colIndex + 1]
        IN  /\ output[1].piece = PIECE_INDEX_TO_TYPE[input.pieceIndex]
            /\ output[1].column = place[1]
            /\ output[1].rotation = place[2]
            /\ output[1].moves =
                 FINESSE_MOVES[input.pieceIndex][input.rotIndex + 1][input.colIndex + 1]
            /\ output[1].moves # <<>>

\* The second layer of Z, whose rotation is 3, at its seventh position.
C26_Witness ==
    /\ output # <<>>
    /\ input.patternId = <<"Z", "_", "6", "_", "3">>
    /\ input.rotIndex = 1
    /\ output[1].rotation = 3
    /\ output[1].moves = << <<"C", "R", "R", "DROP">>, <<"DR", "L", "CC", "DROP">> >>

-----------------------------------------------------------------------------
\* The shape of the table of moves, read through getOptimalMoves

\* The number of orientation layers the statement gives a piece.
LayerCount(pieceType) ==
    CASE pieceType = "O" -> 1
      [] pieceType \in {"Z", "S", "I"} -> 2
      [] OTHER -> 4

\* C27: the table of moves has 1 layer for O, 2 for Z, S and I and 4 for T, L
\* and J, and every column of every layer holds at least one sequence, each
\* ending with DROP.
C27_TableShape ==
    input.pieceIndex \in 0..6 =>
        /\ Len(FINESSE_MOVES[input.pieceIndex]) =
              LayerCount(PIECE_INDEX_TO_TYPE[input.pieceIndex])
        /\ \A layer \in 1..Len(FINESSE_MOVES[input.pieceIndex]) :
              \A column \in 1..Len(FINESSE_MOVES[input.pieceIndex][layer]) :
                 LET sequences == FINESSE_MOVES[input.pieceIndex][layer][column]
                 IN  /\ Len(sequences) >= 1
                     /\ \A k \in 1..Len(sequences) :
                           /\ Len(sequences[k]) >= 1
                           /\ sequences[k][Len(sequences[k])] = "DROP"
        /\ (output # <<>> /\ output[1] # <<>>) =>
              \A k \in 1..Len(output[1]) : output[1][k][Len(output[1][k])] = "DROP"

\* The last column of the fourth layer of J has been read: one sequence, which
\* ends with DROP.
C27_Witness ==
    /\ input = [pieceIndex |-> 6, columnIndex |-> 8, rotationIndex |-> 3]
    /\ output = << << <<"CC", "DR", "DROP">> >> >>

-----------------------------------------------------------------------------
\* calculateMasteryStats (lib/sm2)

\* totalSuccess and totalFail after the forEach over the cards.
RECURSIVE TotalSuccess(_)
TotalSuccess(cardList) ==
    IF cardList = <<>> THEN 0
    ELSE Head(cardList).successCount + TotalSuccess(Tail(cardList))

RECURSIVE TotalFail(_)
TotalFail(cardList) ==
    IF cardList = <<>> THEN 0
    ELSE Head(cardList).failCount + TotalFail(Tail(cardList))

\* Mutant of calculateMasteryStats: the mastered cards are counted as in
\* progress too.
calculateMasteryStatsAllInProgress(cs, totalPatterns) ==
    LET masteredCount == Len(getMasteredCards(cs))
        totalAttempts == TotalSuccess(cs) + TotalFail(cs)
    IN  [masteredCount |-> masteredCount,
         inProgressCount |-> Len(cs),
         notStartedCount |-> totalPatterns - Len(cs),
         overallAccuracy |-> IF totalAttempts > 0 THEN <<TotalSuccess(cs), totalAttempts>>
                             ELSE <<0, 1>>,
         totalAttempts |-> totalAttempts]

\* overallAccuracy is the pair <<numerator, denominator>> of the quotient, and
\* <<0, 1>> for the number 0.
calculateMasteryStats(cs, totalPatterns) ==
    LET masteredCount == Len(getMasteredCards(cs))
        totalAttempts == TotalSuccess(cs) + TotalFail(cs)
    IN  [masteredCount |-> masteredCount,
         inProgressCount |-> Len(cs) - masteredCount,
         notStartedCount |-> totalPatterns - Len(cs),
         overallAccuracy |-> IF totalAttempts > 0 THEN <<TotalSuccess(cs), totalAttempts>>
                             ELSE <<0, 1>>,
         totalAttempts |-> totalAttempts]

\* The arguments: the card maps of SelectInit, with cards never reviewed added
\* by hand, and every total up to MaxTotalPatterns.
MaxTotalPatterns == 4

StatsInit ==
    /\ NoProgress
    /\ input \in [cards : {cs \in CardMaps(MaxCards) : DistinctIds(cs)}
                              \cup {<<initCard(getAllPatternIds[1], 0)>>},
                  totalPatterns : 0..MaxTotalPatterns]
    /\ output = <<>>

StatsApply ==
    /\ output = <<>>
    /\ output' = <<calculateMasteryStats(input.cards, input.totalPatterns)>>
    /\ UNCHANGED <<progress, input>>

SpecStats == StatsInit /\ [][StatsApply]_vars

\* The indices of the cards of the call that are mastered: at least
\* MIN_ATTEMPTS_FOR_MASTERY attempts, nine in ten of them correct.
StatsMastered ==
    {i \in 1..Len(input.cards) :
        LET s == input.cards[i].successCount
            f == input.cards[i].failCount
        IN  s + f >= MIN_ATTEMPTS_FOR_MASTERY /\ 100 * s >= MASTERY_THRESHOLD * (s + f)}

\* The sum of field over the first n cards of the call.
RECURSIVE StatsSum(_, _)
StatsSum(field, n) ==
    IF n = 0 THEN 0 ELSE StatsSum(field, n - 1) + input.cards[n][field]

\* C28: calculateMasteryStats returns the number of mastered cards, the number
\* of cards less that, the total less the number of cards, and the quotient of
\* the summed successCount by the summed attempts, or 0 without attempts; the
\* three counts add up to the total.
C28_Stats ==
    output # <<>> =>
        LET n == Len(input.cards)
            success == StatsSum("successCount", n)
            attempts == success + StatsSum("failCount", n)
        IN  /\ output[1].masteredCount = Cardinality(StatsMastered)
            /\ output[1].inProgressCount = n - Cardinality(StatsMastered)
            /\ output[1].notStartedCount = input.totalPatterns - n
            /\ output[1].overallAccuracy =
                  IF attempts = 0 THEN <<0, 1>> ELSE <<success, attempts>>
            /\ output[1].masteredCount + output[1].inProgressCount
                  + output[1].notStartedCount = input.totalPatterns

\* Two cards, one of them mastered, of four patterns.
C28_Witness ==
    /\ output # <<>>
    /\ input.totalPatterns = 4
    /\ Len(input.cards) = 2
    /\ output[1].masteredCount = 1
    /\ output[1].inProgressCount = 1
    /\ output[1].notStartedCount = 2
    /\ output[1].overallAccuracy = <<9, 11>>

\* No attempt on any card: the accuracy is 0.
C28_WitnessNoAttempts ==
    /\ output # <<>>
    /\ Len(input.cards) = 1
    /\ output[1].totalAttempts = 0
    /\ output[1].overallAccuracy = <<0, 1>>

-----------------------------------------------------------------------------
\* serializeProgress, deserializeProgress and loadProgress (hooks/use-key-bindings.ts)
\*
\* A JSON text is modelled by its tree: <<"number", digits>>, <<"string", chars>>,
\* <<"array", items>> and <<"object", members>>, a member being <<key, value>>.
\* Numbers are written in decimal and read back from the digits.

JsonNumber(n) == <<"number", NumberToString(n)>>

\* A quotient c / t is written as the two integers it was computed from.
JsonQuotient(pair) ==
    <<"number", NumberToString(pair[1]) \o <<"/">> \o NumberToString(pair[2])>>

JsonString(chars) == <<"string", chars>>

JsonArray(items) == <<"array", items>>

JsonObject(members) == <<"object", members>>

HasMember(object, key) == \E i \in 1..Len(object[2]) : object[2][i][1] = key

Member(object, key) ==
    object[2][CHOOSE i \in 1..Len(object[2]) : object[2][i][1] = key][2]

ParseNumber(json) == ParseInt(json[2])

ParseQuotient(json) ==
    LET parts == SplitOn(json[2], "/", <<>>)
    IN  <<ParseInt(parts[1]), ParseInt(parts[2])>>

StringifyCard(card) ==
    JsonObject(<< <<"patternId", JsonString(card.patternId)>>,
                  <<"easiness", JsonNumber(card.easiness)>>,
                  <<"interval", JsonNumber(card.interval)>>,
                  <<"repetitions", JsonNumber(card.repetitions)>>,
                  <<"successCount", JsonNumber(card.successCount)>>,
                  <<"failCount", JsonNumber(card.failCount)>>,
                  <<"nextReviewAt", JsonNumber(card.nextReviewAt)>> >>)

ParseCard(json) ==
    [patternId |-> Member(json, "patternId")[2],
     easiness |-> ParseNumber(Member(json, "easiness")),
     interval |-> ParseNumber(Member(json, "interval")),
     repetitions |-> ParseNumber(Member(json, "repetitions")),
     successCount |-> ParseNumber(Member(json, "successCount")),
     failCount |-> ParseNumber(Member(json, "failCount")),
     nextReviewAt |-> ParseNumber(Member(json, "nextReviewAt"))]

StringifyRecord(record) ==
    JsonObject(<< <<"totalAttempts", JsonNumber(record.totalAttempts)>>,
                  <<"correctAttempts", JsonNumber(record.correctAttempts)>>,
                  <<"accuracy", JsonQuotient(record.accuracy)>>,
                  <<"patternsReviewed", JsonNumber(record.patternsReviewed)>>,
                  <<"newPatternsMastered", JsonNumber(record.newPatternsMastered)>> >>)

ParseRecord(json) ==
    [totalAttempts |-> ParseNumber(Member(json, "totalAttempts")),
     correctAttempts |-> ParseNumber(Member(json, "correctAttempts")),
     accuracy |-> ParseQuotient(Member(json, "accuracy")),
     patternsReviewed |-> ParseNumber(Member(json, "patternsReviewed")),
     newPatternsMastered |-> ParseNumber(Member(json, "newPatternsMastered"))]

\* JSON.stringify of the four fields; the cards are the members of an object,
\* keyed by pattern id, in insertion order.
serializeProgress(p) ==
    JsonObject(<<
        <<"cards", JsonObject([i \in 1..Len(p.cards) |->
                        <<p.cards[i].patternId, StringifyCard(p.cards[i])>>])>>,
        <<"sessionHistory", JsonArray([i \in 1..Len(p.sessionHistory) |->
                        StringifyRecord(p.sessionHistory[i])])>>,
        <<"globalRepetitionCount", JsonNumber(p.globalRepetitionCount)>>,
        <<"lastMasteredReview", JsonNumber(p.lastMasteredReview)>> >>)

\* Mutant of deserializeProgress: the catch branch, for every text.
deserializeProgressFailed(data) == [key \in {} |-> 0]

\* The four fields of the parsed text, each with its default when it is absent.
deserializeProgress(data) ==
    [cards |-> IF HasMember(data, "cards")
               THEN [i \in 1..Len(Member(data, "cards")[2]) |->
                        ParseCard(Member(data, "cards")[2][i][2])]
               ELSE <<>>,
     sessionHistory |-> IF HasMember(data, "sessionHistory")
               THEN [i \in 1..Len(Member(data, "sessionHistory")[2]) |->
                        ParseRecord(Member(data, "sessionHistory")[2][i])]
               ELSE <<>>,
     globalRepetitionCount |-> IF HasMember(data, "globalRepetitionCount")
               THEN ParseNumber(Member(data, "globalRepetitionCount"))
               ELSE 0,
     lastMasteredReview |-> IF HasMember(data, "lastMasteredReview")
               THEN ParseNumber(Member(data, "lastMasteredReview"))
               ELSE 0]

DEFAULT_PROGRESS ==
    [cards |-> <<>>, sessionHistory |-> <<>>, globalRepetitionCount |-> 0,
     lastMasteredReview |-> 0, currentSession |-> FreshSession]

\* { ...DEFAULT_PROGRESS, ...parsed, currentSession: { ... } } for a stored text.
loadProgress(stored) ==
    LET parsed == deserializeProgress(stored)
    IN  [key \in DOMAIN DEFAULT_PROGRESS |->
            IF key = "currentSession" THEN FreshSession
            ELSE IF key \in DOMAIN parsed THEN parsed[key]
            ELSE DEFAULT_PROGRESS[key]]

\* The progress that is saved: up to two cards, each after up to
\* MaxSavedReviews results, up to two session records, and a session that is
\* fresh or under way.
MaxSavedReviews == 3

RECURSIVE ReviewedCards(_, _)
ReviewedCards(patternId, n) ==
    IF n = 0 THEN {initCard(patternId, 0)}
    ELSE {reviewCard(card, correct, n - 1) :
             card \in ReviewedCards(patternId, n - 1), correct \in BOOLEAN}

SavedCardsOf(patternId) ==
    UNION {ReviewedCards(patternId, n) : n \in 1..MaxSavedReviews}

SavedCardMaps ==
    {<<>>} \cup {<<a>> : a \in SavedCardsOf(getAllPatternIds[1])}
           \cup {<<a, b>> : a \in SavedCardsOf(getAllPatternIds[1]),
                            b \in SavedCardsOf(getAllPatternIds[2])}

SavedHistories ==
    {<<>>, <<createSessionRecord(3, 2, 2, 1)>>,
     <<createSessionRecord(3, 2, 2, 1), createSessionRecord(1, 0, 1, 0)>>}

SavedSessions ==
    {FreshSession,
     [attempts |-> 3, correct |-> 2, patternsReviewed |-> {getAllPatternIds[1]},
      patternsMasteredThisSession |-> 1]}

PersistInit ==
    /\ NoProgress
    /\ input \in [cards : SavedCardMaps,
                  sessionHistory : SavedHistories,
                  globalRepetitionCount : {0, 12},
                  lastMasteredReview : {0, 10},
                  currentSession : SavedSessions]
    /\ output = <<>>

\* The save effect writes the text; the next mount loads it.
PersistApply ==
    /\ output = <<>>
    /\ LET stored == serializeProgress(input)
       IN  output' = <<[stored |-> stored, loaded |-> loadProgress(stored)]>>
    /\ UNCHANGED <<progress, input>>

SpecPersist == PersistInit /\ [][PersistApply]_vars

\* The keys of the stored object.
StoredKeys == {output[1].stored[2][i][1] : i \in 1..Len(output[1].stored[2])}

\* C29: the stored payload has exactly the members cards, sessionHistory,
\* globalRepetitionCount and lastMasteredReview, never currentSession; loading
\* it gives these four fields as they were saved and a currentSession with no
\* attempt, nothing correct, no pattern reviewed and nothing newly mastered,
\* whatever the session was at the save.
C29_SaveAndLoad ==
    output # <<>> =>
        /\ StoredKeys = {"cards", "sessionHistory", "globalRepetitionCount",
                         "lastMasteredReview"}
        /\ Len(output[1].stored[2]) = 4
        /\ output[1].loaded.cards = input.cards
        /\ output[1].loaded.sessionHistory = input.sessionHistory
        /\ output[1].loaded.globalRepetitionCount = input.globalRepetitionCount
        /\ output[1].loaded.lastMasteredReview = input.lastMasteredReview
        /\ output[1].loaded.currentSession.attempts = 0
        /\ output[1].loaded.currentSession.correct = 0
        /\ output[1].loaded.currentSession.patternsReviewed = {}
        /\ output[1].loaded.currentSession.patternsMasteredThisSession = 0

\* Saved in the middle of a session, with two cards and two session records.
C29_Witness ==
    /\ output # <<>>
    /\ input.currentSession.attempts = 3
    /\ Len(input.cards) = 2
    /\ input.cards[1].failCount > 0
    /\ Len(input.sessionHistory) = 2
    /\ input.globalRepetitionCount = 12
    /\ output[1].loaded.cards = input.cards
    /\ output[1].loaded.currentSession.attempts = 0

-----------------------------------------------------------------------------
\* DifficultySystemProvider (hooks/use-difficulty-system.tsx): the rolling windows
\*
\* In this specification output is the state of the provider, the fields of
\* its PerformanceState and its manualTier with them, and input is the list of
\* the arguments of the recordAttempt calls since the last reset.  The rates
\* and the speed (weakPatternBias, newPatternRate, adaptiveSpeed), which no
\* other field is computed from, are not part of the state here.
\*
\* A quotient is the pair <<numerator, denominator>> of two integers, the
\* denominator positive.  A consistency is the pair <<rad, n>> that stands for
\* max(0, min(1, 1 - sqrt(rad) / (500 * n))).  manualTier is <<>> for null
\* and <<tier>> for a tier.

WINDOW_SIZE == 20

\* The calls between two resets, and how many of them may be incorrect or slow.
MaxAttempts == 22
MaxUnusual == 2

DEFAULT_PERFORMANCE ==
    [recentAccuracy |-> <<>>,
     recentResponseTimes |-> <<>>,
     currentAccuracy |-> <<1, 2>>,
     averageResponseTime |-> <<1000, 1>>,
     consistencyScore |-> <<62500, 1>>,
     isInFlow |-> FALSE,
     flowStreak |-> 0,
     currentDifficulty |-> 50,
     difficultyTier |-> "STANDARD"]

DifficultyTiers == {"CASUAL", "STANDARD", "HARDCORE", "INSANE"}

\* p < q for two quotients.
Less(p, q) == p[1] * q[2] < q[1] * p[2]

RECURSIVE SumOf(_)
SumOf(arr) == IF arr = <<>> THEN 0 ELSE arr[1] + SumOf(Tail(arr))

RECURSIVE SumOfSquares(_)
SumOfSquares(arr) ==
    IF arr = <<>> THEN 0 ELSE arr[1] * arr[1] + SumOfSquares(Tail(arr))

rollingAverage(arr) ==
    IF Len(arr) = 0 THEN <<0, 1>> ELSE <<SumOf(arr), Len(arr)>>

\* The mean of the squares of the differences from the mean of n numbers of
\* sum S and sum of squares Q is (n * Q - S * S) / (n * n), so the standard
\* deviation over 500 is sqrt(n * Q - S * S) / (500 * n); 0.5 is
\* 1 - sqrt(62500 * n * n) / (500 * n).
calculateConsistency(arr) ==
    LET n == Len(arr)
    IN  IF n < 3 THEN <<62500 * Max(n, 1) * Max(n, 1), Max(n, 1)>>
        ELSE <<n * SumOfSquares(arr) - SumOf(arr) * SumOf(arr), n>>

\* consistency > 0.6: the standard deviation is under 200.
AboveSixTenths(consistency) ==
    consistency[1] < (200 * consistency[2]) * (200 * consistency[2])

\* Mutant of detectFlowState: the streak is not looked at.
detectFlowStateNoStreak(accuracy, consistency, avgTime, currentStreak) ==
    /\ Less(<<8, 10>>, accuracy)
    /\ AboveSixTenths(consistency)
    /\ Less(avgTime, <<1000, 1>>)

detectFlowState(accuracy, consistency, avgTime, currentStreak) ==
    /\ Less(<<8, 10>>, accuracy)
    /\ AboveSixTenths(consistency)
    /\ Less(avgTime, <<1000, 1>>)
    /\ currentStreak >= 5

\* Math.round(accuracy * 40 + speedScore + consistency * 30) for an accuracy
\* k / n, an average time S / n and a consistency <<rad, n>> of windows of the
\* same length n.  In units of 1 / (50 * n) the sum and the half that
\* Math.round adds are 2000 * k + speed + 1500 * n - min(1500 * n,
\* 3 * sqrt(rad)) + 25 * n, and the result is the largest d with
\* 50 * n * d at most that: the d that is at most that while d + 1 is not.
calculateDifficulty(accuracy, avgTime, consistency) ==
    LET n == accuracy[2]
        sooner == 2000 * n - avgTime[1]
        speed == IF sooner < 0 THEN 0
                 ELSE IF sooner > 1500 * n THEN 1500 * n
                 ELSE sooner
        whole == 2000 * accuracy[1] + speed + 1500 * n + 25 * n
        AtLeast(d) ==
            LET rest == whole - 50 * n * d
            IN  \/ rest >= 1500 * n
                \/ /\ rest >= 0
                   /\ consistency[1] <= (rest * rest) \div 9
    IN  CHOOSE d \in 0..100 : AtLeast(d) /\ ~AtLeast(d + 1)

getTierFromDifficulty(difficulty) ==
    IF difficulty >= 80 THEN "INSANE"
    ELSE IF difficulty >= 60 THEN "HARDCORE"
    ELSE IF difficulty >= 35 THEN "STANDARD"
    ELSE "CASUAL"

\* Mutant of ManualOr: the tier set by hand is not looked at.
ManualIgnored(manualTier, tier) == tier

\* manualTier || tier
ManualOr(manualTier, tier) ==
    IF manualTier # <<>> THEN manualTier[1] ELSE tier

\* Mutant of SliceLast: the first n elements are kept.
SliceFirst(seq, n) == SubSeq(seq, 1, IF Len(seq) < n THEN Len(seq) ELSE n)

\* seq.slice(-n)
SliceLast(seq, n) ==
    IF Len(seq) <= n THEN seq ELSE SubSeq(seq, Len(seq) - n + 1, Len(seq))

Unusual(attempt) == ~attempt.correct \/ attempt.responseTime > 400

UnusualCalls == Cardinality({i \in 1..Len(input) : Unusual(input[i])})

\* The provider with its two states.
ProviderState(state, manualTier) == [manualTier |-> manualTier] @@ state

WindowsInit ==
    /\ NoProgress
    /\ input = <<>>
    /\ output = ProviderState(DEFAULT_PERFORMANCE, <<>>)

recordAttempt(correct, responseTime) ==
    /\ LET newAccuracy ==
               SliceLast(Append(output.recentAccuracy, IF correct THEN 1 ELSE 0),
                         WINDOW_SIZE)
           newTimes ==
               SliceLast(Append(output.recentResponseTimes, responseTime),
                         WINDOW_SIZE)
           currentAccuracy == rollingAverage(newAccuracy)
           averageResponseTime == rollingAverage(newTimes)
           consistencyScore == calculateConsistency(newTimes)
           newFlowStreak == IF correct THEN output.flowStreak + 1 ELSE 0
           currentDifficulty ==
               calculateDifficulty(currentAccuracy, averageResponseTime,
                                   consistencyScore)
       IN  output' =
             ProviderState(
               [recentAccuracy |-> newAccuracy,
                recentResponseTimes |-> newTimes,
                currentAccuracy |-> currentAccuracy,
                averageResponseTime |-> averageResponseTime,
                consistencyScore |-> consistencyScore,
                isInFlow |-> detectFlowState(currentAccuracy, consistencyScore,
                                             averageResponseTime, newFlowStreak),
                flowStreak |-> newFlowStreak,
                currentDifficulty |-> currentDifficulty,
                difficultyTier |->
                    ManualOr(output.manualTier,
                             getTierFromDifficulty(currentDifficulty))],
               output.manualTier)
    /\ input' = Append(input, [correct |-> correct, responseTime |-> responseTime])
    /\ UNCHANGED progress

setDifficultyTier(tier) ==
    /\ output' = [output EXCEPT !.manualTier = <<tier>>,
                                !.difficultyTier = tier]
    /\ UNCHANGED <<progress, input>>

RecordAttemptAny ==
    /\ Len(input) < MaxAttempts
    /\ \E correct \in BOOLEAN, responseTime \in {400, 900} :
          /\ Unusual([correct |-> correct, responseTime |-> responseTime])
                => UnusualCalls < MaxUnusual
          /\ recordAttempt(correct, responseTime)

resetPerformance ==
    /\ output' = ProviderState(DEFAULT_PERFORMANCE, <<>>)
    /\ input' = <<>>
    /\ UNCHANGED progress

\* The windows over long runs of calls, the tier never set by hand; SpecFlow
\* follows short runs with every operation of the provider.
WindowsNext == RecordAttemptAny \/ resetPerformance

SpecWindows == WindowsInit /\ [][WindowsNext]_vars

\* The last min(n, WINDOW_SIZE) calls of the n calls since the last reset.
RecentCalls ==
    LET n == Len(input)
        k == IF n < WINDOW_SIZE THEN n ELSE WINDOW_SIZE
    IN  [i \in 1..k |-> input[n - k + i]]

\* C30: after n recordAttempt calls since the last reset, the two windows have
\* min(n, 20) entries, those of the most recent calls in their order, and the
\* same length.
C30_Windows ==
    /\ Len(output.recentAccuracy) = Len(RecentCalls)
    /\ Len(output.recentResponseTimes) = Len(RecentCalls)
    /\ \A i \in 1..Len(RecentCalls) :
          /\ output.recentAccuracy[i] = (IF RecentCalls[i].correct THEN 1 ELSE 0)
          /\ output.recentResponseTimes[i] = RecentCalls[i].responseTime
    /\ Len(output.recentAccuracy) = Len(output.recentResponseTimes)

\* More calls than the window holds: the first call, incorrect and slow, has
\* left both windows, and the last one, slow, is their last entry.
C30_Witness ==
    /\ Len(input) = WINDOW_SIZE + 2
    /\ ~input[1].correct
    /\ input[1].responseTime = 900
    /\ Len(output.recentAccuracy) = WINDOW_SIZE
    /\ \A i \in 1..WINDOW_SIZE : output.recentAccuracy[i] = 1
    /\ output.recentResponseTimes[WINDOW_SIZE] = 900
    /\ \A i \in 1..(WINDOW_SIZE - 1) : output.recentResponseTimes[i] = 400

-----------------------------------------------------------------------------
\* DifficultySystemProvider: the flow flag and the tier

\* The calls between two resets, each correct or not, fast or slow.
MaxFlowAttempts == 7

RecordAttemptShort ==
    /\ Len(input) < MaxFlowAttempts
    /\ \E correct \in BOOLEAN, responseTime \in {400, 2000} :
          recordAttempt(correct, responseTime)

SetDifficultyTierAny == \E tier \in DifficultyTiers : setDifficultyTier(tier)

FlowNext == RecordAttemptShort \/ SetDifficultyTierAny \/ resetPerformance

SpecFlow == WindowsInit /\ [][FlowNext]_vars

\* A step of recordAttempt: the list of its calls has one more.
Recorded == Len(input') = Len(input) + 1

\* The correct calls at the end of calls, with no incorrect one between them.
RECURSIVE TrailingCorrect(_)
TrailingCorrect(calls) ==
    IF calls = <<>> THEN 0
    ELSE IF ~calls[Len(calls)].correct THEN 0
    ELSE 1 + TrailingCorrect(SubSeq(calls, 1, Len(calls) - 1))

\* The three conditions of the flow on the calls of the windows.  The times
\* are taken in tenths of a second, of which the times recorded are whole
\* numbers: a standard deviation under 200 ms is a mean of the squares of the
\* differences from the mean under 4.
WindowAccurate(calls) ==
    10 * Cardinality({i \in DOMAIN calls : calls[i].correct}) > 8 * Len(calls)

WindowFast(calls) ==
    SumOf([i \in DOMAIN calls |-> calls[i].responseTime]) < 1000 * Len(calls)

WindowConsistent(calls) ==
    LET n == Len(calls)
        tenths == [i \in DOMAIN calls |-> calls[i].responseTime \div 100]
        squares == [i \in DOMAIN calls |->
                       (n * tenths[i] - SumOf(tenths)) * (n * tenths[i] - SumOf(tenths))]
    IN  /\ n >= 3
        /\ SumOf(squares) < 4 * n * n * n

\* C31: after a recordAttempt flowStreak is one more than before when the
\* attempt is correct and 0 when it is not, and isInFlow is true exactly when
\* the accuracy is over 0.8, the consistency over 0.6, the average time under
\* 1000 and flowStreak at least 5; so it is false after an incorrect attempt
\* and after fewer than 5 correct attempts in a row.
C31_Step ==
    Recorded =>
        LET attempt == input'[Len(input')]
            calls == RecentCalls'
        IN  /\ output'.flowStreak =
                  (IF attempt.correct THEN output.flowStreak + 1 ELSE 0)
            /\ output'.isInFlow =
                  (/\ WindowAccurate(calls)
                   /\ WindowConsistent(calls)
                   /\ WindowFast(calls)
                   /\ output'.flowStreak >= 5)
            /\ output'.isInFlow =
                  (/\ Less(<<8, 10>>, output'.currentAccuracy)
                   /\ AboveSixTenths(output'.consistencyScore)
                   /\ Less(output'.averageResponseTime, <<1000, 1>>)
                   /\ output'.flowStreak >= 5)
            /\ ~attempt.correct => ~output'.isInFlow
            /\ TrailingCorrect(input') < 5 => ~output'.isInFlow

C31_Flow == [][C31_Step]_vars

\* An incorrect attempt and then five correct ones, all fast: the player is
\* in the flow.
C31_Witness ==
    /\ Len(input) = 6
    /\ ~input[1].correct
    /\ output.flowStreak = 5
    /\ output.isInFlow

\* Five correct attempts in a row after two incorrect ones, all fast: the
\* streak is 5 and the accuracy, 5 / 7, keeps the player out of the flow.
C31_WitnessNotAccurate ==
    /\ Len(input) = 7
    /\ output.flowStreak = 5
    /\ output.averageResponseTime = <<2800, 7>>
    /\ ~output.isInFlow

\* C32: after a recordAttempt difficultyTier is the tier set by hand when
\* setDifficultyTier has been called since the last resetPerformance, and
\* else the tier of currentDifficulty (INSANE from 80, HARDCORE from 60,
\* STANDARD from 35, else CASUAL); a tier set by hand stays over the
\* recordAttempt calls until resetPerformance.
C32_Step ==
    /\ Recorded =>
          /\ output'.manualTier = output.manualTier
          /\ output.manualTier # <<>> =>
                /\ output.difficultyTier = output.manualTier[1]
                /\ output'.difficultyTier = output.manualTier[1]
          /\ output.manualTier = <<>> =>
                output'.difficultyTier =
                    (CASE output'.currentDifficulty >= 80 -> "INSANE"
                       [] output'.currentDifficulty \in 60..79 -> "HARDCORE"
                       [] output'.currentDifficulty \in 35..59 -> "STANDARD"
                       [] output'.currentDifficulty < 35 -> "CASUAL")
    /\ (\E tier \in DifficultyTiers : setDifficultyTier(tier)) =>
          /\ output'.manualTier # <<>>
          /\ output'.difficultyTier = output'.manualTier[1]
    /\ resetPerformance => output'.manualTier = <<>>
    /\ output'.manualTier # output.manualTier =>
          \/ \E tier \in DifficultyTiers : setDifficultyTier(tier)
          \/ resetPerformance

C32_Tier == [][C32_Step]_vars

\* The tier was set to CASUAL by hand and three correct and fast attempts
\* were recorded after that: the difficulty is 100 and the tier is CASUAL.
C32_Witness ==
    /\ Len(input) = 3
    /\ output.manualTier = <<"CASUAL">>
    /\ output.currentDifficulty = 100
    /\ output.difficultyTier = "CASUAL"

-----------------------------------------------------------------------------
\* The repetition count, the review dates and the session counters

\* The attempts of all the cards of cs.
RECURSIVE AttemptsOfAll(_)
AttemptsOfAll(cs) ==
    IF cs = <<>> THEN 0
    ELSE cs[1].successCount + cs[1].failCount + AttemptsOfAll(Tail(cs))

\* C36: from the empty progress, after any recordResult, endSession,
\* startNewSession and resetProgress, globalRepetitionCount is the sum of
\* successCount + failCount over all cards.
C36_CountIsAttempts == globalRepetitionCount = AttemptsOfAll(cards)

\* Three results on two patterns, one of them incorrect.
C36_Witness ==
    /\ globalRepetitionCount = 3
    /\ Len(cards) = 2
    /\ \E i \in 1..2 : cards[i].failCount = 1
    /\ AttemptsOfAll(cards) = 3

\* C38: right after recordResult for a pattern, its card has nextReviewAt = the
\* new globalRepetitionCount - 1 + its interval, so nextReviewAt is at least the
\* new count, and equal to it exactly when the new interval is 1.
C38_Step ==
    RecordedStep =>
        LET card == CardWith(cards', ReviewedId)
        IN  /\ card.nextReviewAt = globalRepetitionCount' - 1 + card.interval
            /\ card.nextReviewAt >= globalRepetitionCount'
            /\ (card.nextReviewAt = globalRepetitionCount') = (card.interval = 1)

C38_NextReviewAt == [][C38_Step]_vars

\* A correct answer after two incorrect ones: the interval is 1 and the card is
\* due at the next selection.
C38_Witness ==
    /\ globalRepetitionCount = 3
    /\ Len(cards) = 1
    /\ cards[1].failCount = 2
    /\ cards[1].interval = 1
    /\ cards[1].nextReviewAt = globalRepetitionCount

\* C39: in a session, patternsMasteredThisSession is at most the number of
\* distinct patterns reviewed in it.
C39_MasteredAtMostReviewed ==
    currentSession.patternsMasteredThisSession
        <= Cardinality(currentSession.patternsReviewed)

\* C40: in every entry of the table of moves all the sequences have the same
\* length, so the length of the first one is the length of the shortest.
C40_EqualLengths ==
    (output # <<>> /\ output[1] # <<>>) =>
        /\ \A k \in 1..Len(output[1]) : Len(output[1][k]) = Len(output[1][1])
        /\ \A n \in 0..(Len(output[1][1]) + 1) :
              (n < Len(output[1][1]))
                 = (\A k \in 1..Len(output[1]) : n < Len(output[1][k]))

\* An entry with two sequences has been read: column 1 of the first layer of Z.
C40_Witness ==
    /\ input = [pieceIndex |-> 0, columnIndex |-> 1, rotationIndex |-> 0]
    /\ output = << << <<"L", "L", "DROP">>, <<"DL", "R", "DROP">> >> >>

-----------------------------------------------------------------------------
\* The practice loop with correct answers only: select, record correct, repeat

\* The rounds of the loop that are followed: those that master every pattern
\* with no review wasted, and MaxExtraRounds more.
MaxExtraRounds == 3
MasterRounds == MIN_ATTEMPTS_FOR_MASTERY * Len(allPatternIds) + MaxExtraRounds

MasterRecord ==
    /\ selected \notin {Pending, Null}
    /\ globalRepetitionCount < MasterRounds
    /\ \E target \in {parsePatternId(selected)} :
          RecordResult(target.piece, target.column, target.rotation, TRUE)

MasterNext == LoopSelect \/ MasterRecord

\* The loop is repeated for ever: a step that can be taken is taken.
SpecMaster == LoopInit /\ [][MasterNext]_vars /\ WF_vars(MasterNext)

\* Every pattern of the universe has a card that is mastered.
AllMastered ==
    \A id \in Range(allPatternIds) :
        /\ id \in CardIds(cards)
        /\ MasteredCounts(SuccessOf(cards, id), FailOf(cards, id))

\* C37: from the empty store over a non-empty set of patterns, when the loop
\* of selectNextPattern and recordResult(selected, correct) goes on for ever,
\* every pattern eventually has a mastered card and all stay mastered from
\* then on.
C37_EventuallyAllMastered == <>[]AllMastered

\* Three patterns, all mastered, and the loop has gone on after that.
C37_Witness ==
    /\ Len(allPatternIds) = 3
    /\ AllMastered
    /\ globalRepetitionCount > MIN_ATTEMPTS_FOR_MASTERY * 3

-----------------------------------------------------------------------------
\* hardDrop: the check of the landing position and of the moves

\* Mutant of rotationMatches: the two rotations are compared as they are.
rotationMatchesExact(pieceType, rotation, targetRotation) ==
    rotation = targetRotation

isTwoRotationPiece(pieceType) == pieceType \in {"Z", "S", "I"}

rotationMatches(pieceType, rotation, targetRotation) ==
    IF isTwoRotationPiece(pieceType)
    THEN Remainder(rotation, 2) = Remainder(targetRotation, 2)
    ELSE rotation = targetRotation

positionCorrect(pieceType, actualColumn, rotation, target) ==
    /\ actualColumn = target.column
    /\ rotationMatches(pieceType, rotation, target.rotation)

\* The moves are compared with the moves of the target and, for Z, S and I
\* in a matching rotation, then with the moves of the rotation of the piece.
movesCorrect(pieceType, actualColumn, rotation, target, moveList) ==
    IF compareMoves(moveList, target.moves) THEN TRUE
    ELSE IF /\ isTwoRotationPiece(pieceType)
            /\ rotationMatches(pieceType, rotation, target.rotation)
    THEN compareMoves(moveList,
                      getOptimalMoves(PIECE_TYPE_TO_INDEX[pieceType],
                                      actualColumn, rotation))
    ELSE FALSE

\* What hardDrop finds for a piece that has landed, in a mode with a target.
hardDrop(pieceType, x, leftmostFilledCol, rotation, target, moveList) ==
    LET actualColumn == x + leftmostFilledCol
    IN  [actualColumn |-> actualColumn,
         rotationMatches |->
             rotationMatches(pieceType, rotation, target.rotation),
         positionCorrect |->
             positionCorrect(pieceType, actualColumn, rotation, target),
         movesCorrect |->
             movesCorrect(pieceType, actualColumn, rotation, target, moveList),
         isCorrect |->
             /\ positionCorrect(pieceType, actualColumn, rotation, target)
             /\ movesCorrect(pieceType, actualColumn, rotation, target,
                             moveList)]

\* The landings: the box of the piece from one column left of the board to
\* MaxDropX, the first filled column of its shape from 0 to 2.
MaxDropX == 4
DropTargets == {ResolvePattern(place.patternId) : place \in TablePlaces}

\* Moves no entry of the table is as short as, with and without a soft drop.
LongMoves == <<"L", "L", "L", "L", "L", "L", "DROP">>
LongSoftMoves == <<"L", "L", "L", "L", "L", "SD", "DROP">>

\* The lists played: the first of the target, the first of the place of the
\* landing, a lone drop and the two long ones.
DropMoveLists(target, actualColumn, rotation) ==
    LET there == getOptimalMoves(PIECE_TYPE_TO_INDEX[target.piece],
                                 actualColumn, rotation)
    IN  {target.moves[1], <<"DROP">>, LongMoves, LongSoftMoves}
          \cup (IF there = <<>> THEN {} ELSE {there[1]})

DropInit ==
    /\ NoProgress
    /\ \E target \in DropTargets, rotation \in 0..3,
          x \in (0 - 1)..MaxDropX, leftmostFilledCol \in 0..2 :
          \E moveList \in DropMoveLists(target, x + leftmostFilledCol, rotation) :
             input = [pieceType |-> target.piece,
                      x |-> x,
                      leftmostFilledCol |-> leftmostFilledCol,
                      rotation |-> rotation,
                      target |-> target,
                      moveList |-> moveList]
    /\ output = <<>>

DropApply ==
    /\ output = <<>>
    /\ output' = <<hardDrop(input.pieceType, input.x, input.leftmostFilledCol,
                            input.rotation, input.target, input.moveList)>>
    /\ UNCHANGED <<progress, input>>

SpecDrop == DropInit /\ [][DropApply]_vars

-----------------------------------------------------------------------------
\* TetrisBoard (components/tetris-board.tsx): the hard drop key in LEARNING mode
\*
\* validateCurrentPlacement is called here and its body is not in these
\* sources: what it returns, wouldBeCorrect, is an input of the press.

TIMING_THRESHOLDS_GOOD == 1500

\* The booleans a press of the hard drop key passes to recordAttempt and,
\* through handleAction and hardDrop, to recordResult, each in a list.
handleActionWithRhythm(wouldBeCorrect, currentTiming, dropped) ==
    IF ~wouldBeCorrect
    THEN [recordAttempt |-> <<FALSE>>, recordResult |-> <<>>]
    ELSE IF currentTiming > TIMING_THRESHOLDS_GOOD
    THEN [recordAttempt |-> <<FALSE>>, recordResult |-> <<>>]
    ELSE [recordAttempt |-> <<TRUE>>, recordResult |-> <<dropped.isCorrect>>]

\* The presses: the landings of DropInit, each judged either way by
\* validateCurrentPlacement, in time or late.
PressInit ==
    /\ NoProgress
    /\ \E target \in DropTargets, rotation \in 0..3,
          x \in (0 - 1)..MaxDropX, leftmostFilledCol \in 0..2 :
          \E moveList \in DropMoveLists(target, x + leftmostFilledCol, rotation),
             wouldBeCorrect \in BOOLEAN, currentTiming \in {400, 1600} :
             input = [pieceType |-> target.piece,
                      x |-> x,
                      leftmostFilledCol |-> leftmostFilledCol,
                      rotation |-> rotation,
                      target |-> target,
                      moveList |-> moveList,
                      wouldBeCorrect |-> wouldBeCorrect,
                      currentTiming |-> currentTiming]
    /\ output = <<>>

PressApply ==
    /\ output = <<>>
    /\ output' = <<handleActionWithRhythm(
                     input.wouldBeCorrect, input.currentTiming,
                     hardDrop(input.pieceType, input.x, input.leftmostFilledCol,
                              input.rotation, input.target, input.moveList))>>
    /\ UNCHANGED <<progress, input>>

SpecPress == PressInit /\ [][PressApply]_vars

\* C33: for a placement in LEARNING mode recordResult and recordAttempt each
\* receive one boolean, the same, and it is the result of compareMoves on the
\* moves played and the moves of the target; here for the placements that are
\* in the column and the rotation of the target with moves compareMoves
\* accepts, which validateCurrentPlacement has found correct.
C33_SameBoolean ==
    (/\ output # <<>>
     /\ input.wouldBeCorrect
     /\ input.x + input.leftmostFilledCol = input.target.column
     /\ input.rotation = input.target.rotation
     /\ compareMoves(input.moveList, input.target.moves)) =>
        /\ Len(output[1].recordResult) = 1
        /\ Len(output[1].recordAttempt) = 1
        /\ output[1].recordResult[1] = output[1].recordAttempt[1]
        /\ output[1].recordAttempt[1]
             = compareMoves(input.moveList, input.target.moves)

-----------------------------------------------------------------------------
\* LEARNING mode: the hard drop, its timer and the spawn that follows
\*
\* In this specification selected is the pattern of the piece on the board,
\* Pending between a drop and the spawn that follows it, and input is the
\* progress of the render the handlers in use were created in: hardDrop and
\* the spawnPiece its timer calls are closures of that render, and the
\* selectNextLearningPattern of that spawnPiece reads the progress of that
\* render.  output is <<the progress the last selection read>>.

MaxDrops == 4

RenderedProgress ==
    [cards |-> cards,
     globalRepetitionCount |-> globalRepetitionCount,
     lastMasteredReview |-> lastMasteredReview]

LearningInit ==
    /\ cards = <<>>
    /\ sessionHistory = <<>>
    /\ globalRepetitionCount = 0
    /\ lastMasteredReview = 0
    /\ currentSession = FreshSession
    /\ allPatternIds \in {SubSeq(getAllPatternIds, 1, n) : n \in 1..(MaxPatterns + 1)}
    /\ selected = Pending
    /\ reviews = <<>>
    /\ input = RenderedProgress
    /\ output = <<>>

\* spawnPiece, from startGame or from the timer of a drop: the selection is
\* made on the progress of the render spawnPiece was created in.
SpawnPiece ==
    /\ selected = Pending
    /\ \E id \in selectNextPattern(input.cards, allPatternIds,
                                   input.globalRepetitionCount,
                                   input.lastMasteredReview) :
          selected' = id
    /\ output' = <<input>>
    /\ UNCHANGED <<cards, sessionHistory, globalRepetitionCount,
                   lastMasteredReview, currentSession, allPatternIds, reviews,
                   input>>

\* The render after the state has changed: the handlers the next key reaches
\* are those of this render.  The renders between a drop and its timer change
\* nothing of the spawnPiece the timer holds.
Render ==
    /\ selected # Pending
    /\ input # RenderedProgress
    /\ input' = RenderedProgress
    /\ UNCHANGED <<progress, output>>

\* hardDrop with a piece on the board: the result is recorded, the piece is
\* cleared and the timer is set to spawnPiece.
HardDropAndSpawn ==
    /\ selected \notin {Pending, Null}
    /\ input = RenderedProgress
    /\ globalRepetitionCount < MaxDrops
    /\ \E correct \in BOOLEAN, target \in {parsePatternId(selected)} :
          RecordResult(target.piece, target.column, target.rotation, correct)

\* hardDrop with retryOnFault set and a fault: the result is recorded and the
\* piece is put back, with no spawn.
HardDropAndRetry ==
    /\ selected \notin {Pending, Null}
    /\ input = RenderedProgress
    /\ globalRepetitionCount < MaxDrops
    /\ \E target \in {parsePatternId(selected)} :
          RecordProgress(target.piece, target.column, target.rotation, FALSE)
    /\ UNCHANGED <<selected, call>>

LearningNext == SpawnPiece \/ Render \/ HardDropAndSpawn \/ HardDropAndRetry

SpecLearning == LearningInit /\ [][LearningNext]_vars

\* C35: the selection made for the spawn that follows a hard drop reads a
\* card map and a globalRepetitionCount that include the result recorded by
\* that drop.
C35_Step ==
    (selected = Pending /\ selected' # Pending) =>
        /\ output'[1].cards = cards
        /\ output'[1].globalRepetitionCount = globalRepetitionCount

C35_ReadsRecordedResult == [][C35_Step]_vars

=============================================================================
